---- MODULE Spec2Model ----
(***************************************************************************)
(* kube-upgrade-advisor: the Upgrade Planner (internal/planner) and the    *)
(* Impact Analyzer (internal/analysis) with the two knowledge bases        *)
(* (internal/knowledge).                                                   *)
(*                                                                         *)
(* Go strings that the code inspects (sorts, splits, sanitizes, parses)    *)
(* are sequences of one-character strings; strings the code only carries   *)
(* (enum values, free-text messages) are TLA+ strings.                     *)
(***************************************************************************)
EXTENDS Integers, Sequences, FiniteSets, TLC

(***************************************************************************)
(* Bounds of the model.                                                    *)
(***************************************************************************)
MaxPlanAPIs == 2
MaxPlanCharts == 2
MaxCRDs == 1
MaxVersionLen == 3
MaxKBRecords == 2

\* entries of a chart in the chart knowledge-base file
MaxChartEntries == 2

\* steps of a plan handed to ValidatePlan
MaxQuerySteps == 2

\* the largest step count handed to estimateTimeline
MaxStepCount == 8

(***************************************************************************)
(* Strings.                                                                *)
(***************************************************************************)
\* the printable ASCII characters in byte order: 32 (space) to 95 (_), and
\* 97 (a) to 126 (~)
AsciiTo95 ==
    <<" ", "!", "\"", "#", "$", "%", "&", "'", "(", ")", "*", "+", ",",
    "-", ".", "/", "0", "1", "2", "3", "4", "5", "6", "7", "8", "9", ":",
    ";", "<", "=", ">", "?", "@", "A", "B", "C", "D", "E", "F", "G", "H",
    "I", "J", "K", "L", "M", "N", "O", "P", "Q", "R", "S", "T", "U", "V",
    "W", "X", "Y", "Z", "[", "\\", "]", "^", "_">>

AsciiFrom97 ==
    <<"a", "b", "c", "d", "e", "f", "g", "h", "i", "j", "k", "l", "m", "n",
    "o", "p", "q", "r", "s", "t", "u", "v", "w", "x", "y", "z", "{", "|",
    "}", "~">>

Chars ==
    {AsciiTo95[i] : i \in 1..Len(AsciiTo95)} \cup {AsciiFrom97[i] : i \in 1..Len(AsciiFrom97)}

UpperCase ==
    <<"A", "B", "C", "D", "E", "F", "G", "H", "I", "J", "K", "L", "M", "N",
    "O", "P", "Q", "R", "S", "T", "U", "V", "W", "X", "Y", "Z">>

LowerCase ==
    <<"a", "b", "c", "d", "e", "f", "g", "h", "i", "j", "k", "l", "m", "n",
    "o", "p", "q", "r", "s", "t", "u", "v", "w", "x", "y", "z">>

\* byte value of a character: sort.Strings and < on Go strings compare bytes
Ord ==
    [c \in Chars |->
        IF \E i \in 1..Len(AsciiTo95) : AsciiTo95[i] = c
        THEN 31 + (CHOOSE i \in 1..Len(AsciiTo95) : AsciiTo95[i] = c)
        ELSE 96 + (CHOOSE i \in 1..Len(AsciiFrom97) : AsciiFrom97[i] = c)]

\* strings.ToLower on one character
ToLowerChar ==
    [c \in Chars |->
        IF \E i \in 1..Len(UpperCase) : UpperCase[i] = c
        THEN LowerCase[CHOOSE i \in 1..Len(UpperCase) : UpperCase[i] = c]
        ELSE c]

\* a < b on Go strings, from character i on (the characters before i agree)
RECURSIVE StrLessFrom(_, _, _)
StrLessFrom(a, b, i) ==
    IF i > Len(b) THEN FALSE
    ELSE IF i > Len(a) THEN TRUE
    ELSE IF a[i] = b[i] THEN StrLessFrom(a, b, i + 1)
    ELSE Ord[a[i]] < Ord[b[i]]

\* a < b on Go strings
StrLess(a, b) == StrLessFrom(a, b, 1)

\* the insertion that keeps the list in descending order
RECURSIVE InsertSortedDescending(_, _)
InsertSortedDescending(s, x) ==
    IF s = << >> THEN << x >>
    ELSE IF StrLess(Head(s), x) THEN << x >> \o s
    ELSE << Head(s) >> \o InsertSortedDescending(Tail(s), x)

RECURSIVE InsertSorted(_, _)
InsertSorted(s, x) ==
    IF s = << >> THEN << x >>
    ELSE IF StrLess(x, Head(s)) THEN << x >> \o s
    ELSE << Head(s) >> \o InsertSorted(Tail(s), x)

\* sort.Strings
RECURSIVE SortStrings(_)
SortStrings(q) ==
    IF q = << >> THEN << >>
    ELSE InsertSorted(SortStrings(Tail(q)), Head(q))

S_slash == << "/" >>
S_space == << " " >>
\* Text that the code only concatenates into descriptions is kept in fragments:
\* the description is the concatenation of the elements of the sequence.

ID_precheck ==
    <<"p", "r", "e", "c", "h", "e", "c", "k">>

ID_backup ==
    <<"b", "a", "c", "k", "u", "p">>

ID_cluster_upgrade ==
    <<"c", "l", "u", "s", "t", "e", "r", "-", "u", "p", "g", "r", "a", "d",
    "e">>

ID_validation ==
    <<"v", "a", "l", "i", "d", "a", "t", "i", "o", "n">>

PFX_migrate_api ==
    <<"m", "i", "g", "r", "a", "t", "e", "-", "a", "p", "i", "-">>

PFX_upgrade_chart ==
    <<"u", "p", "g", "r", "a", "d", "e", "-", "c", "h", "a", "r", "t", "-">>

TXT_Migrate == << "Migrate " >>

TXT_to == << " to " >>

TXT_Upgrade == << "Upgrade " >>

TXT_from == << " from " >>

TXT_UpgradeKubernetesFrom == << "Upgrade Kubernetes from " >>

DESC_precheck == << "Pre-upgrade validation and checks" >>

DESC_backup == << "Backup cluster state and critical resources" >>

DESC_validation == << "Post-upgrade validation" >>

TXT_core ==
    <<"c", "o", "r", "e">>

(***************************************************************************)
(* Go maps: a function whose domain is the set of keys present.            *)
(***************************************************************************)
EmptyMap == << >>

MapPut(m, k, v) == [x \in (DOMAIN m) \cup {k} |-> IF x = k THEN v ELSE m[x]]

MapGet(m, k, zero) == IF k \in DOMAIN m THEN m[k] ELSE zero

\* every order in which a range over a map with key set S can visit the keys
IterationOrders(S) ==
    {s \in [1..Cardinality(S) -> S] : \A x \in S : \E i \in 1..Cardinality(S) : s[i] = x}

VARIABLES
    graph,      \* Planner.graph: step id -> step
    edges,      \* Planner.edges: step id -> list of successor ids
    planInput,  \* the assessment handed to the last GeneratePlan call
    planIter,   \* the order in which that call's range over apiMap visited the keys
    plan,       \* the plan the last GeneratePlan call returned (NilPlan: none)
    planErr,    \* the error it returned ("" for nil)
    carried,    \* history: when the last call started, the planner still held a
                \* step of an earlier call that is no step of this call's graph
    pc,         \* concurrent callers: where each caller is in GeneratePlan
    callArg,    \* concurrent callers: the assessment of the call and the order
                \* of its range over apiMap
    callPlan,   \* concurrent callers: the plan the call returned
    callErr,    \* concurrent callers: the error the call returned
    apiKB,      \* Analyzer.apiKB: the API knowledge base NewAnalyzer loaded
    chartKB,    \* Analyzer.chartKB: the chart knowledge base NewAnalyzer loaded
    clusters,   \* inventory store: cluster id -> cluster row
    manifestApis,   \* inventory store: the ManifestAPI rows, in insertion order
    crds,           \* inventory store: the CRD rows, in insertion order
    helmReleases,   \* inventory store: the HelmRelease rows, in insertion order
    impactCall,         \* the arguments of the last ComputeUpgradeImpact call on
                        \* the inventory as it is, and the query that failed in it
    impactAssessment,   \* the assessment the last ComputeUpgradeImpact call
                        \* returned for the inventory as it is (NilAssessment: none)
    impactErr,          \* the error that call returned ("" for nil)
    query,      \* the last call of a knowledge-base or version function: the
                \* function and its arguments
    answer      \* what that call returned

(***************************************************************************)
(* internal/analysis: the assessment the planner consumes.                 *)
(***************************************************************************)
ImpactCritical == "critical"
ImpactHigh == "high"
ImpactMedium == "medium"
ImpactLow == "low"
ImpactNone == "none"

\* the cascade with the CRD and chart test ahead of the manifest test
calculateOverallRiskCRDFirst(assessment) ==
    LET apis == assessment.DeprecatedManifestAPIs
        criticalCount == Cardinality({i \in 1..Len(apis) : apis[i].ImpactLevel = ImpactCritical})
    IN  IF assessment.TotalIssues = 0 THEN ImpactNone
        ELSE IF Len(assessment.DeprecatedCRDAPIs) > 0 \/ Len(assessment.IncompatibleCharts) > 0
             THEN ImpactHigh
        ELSE IF criticalCount > 0 THEN ImpactCritical
        ELSE ImpactMedium

\* a.calculateOverallRisk(assessment)
calculateOverallRisk(assessment) ==
    LET apis == assessment.DeprecatedManifestAPIs
        criticalCount == Cardinality({i \in 1..Len(apis) : apis[i].ImpactLevel = ImpactCritical})
    IN  IF assessment.TotalIssues = 0 THEN ImpactNone
        ELSE IF criticalCount > 0 THEN ImpactCritical
        ELSE IF Len(assessment.DeprecatedCRDAPIs) > 0 \/ Len(assessment.IncompatibleCharts) > 0
             THEN ImpactHigh
        ELSE ImpactMedium

(***************************************************************************)
(* internal/knowledge: versions.                                           *)
(***************************************************************************)
Digits == << "0", "1", "2", "3", "4", "5", "6", "7", "8", "9" >>

IsDigit(c) == \E i \in DOMAIN Digits : Digits[i] = c

DigitValue(c) == (CHOOSE i \in DOMAIN Digits : Digits[i] = c) - 1

\* strings.TrimPrefix(s, prefix)
TrimPrefix(s, prefix) ==
    IF Len(s) >= Len(prefix) /\ SubSeq(s, 1, Len(prefix)) = prefix
    THEN SubSeq(s, Len(prefix) + 1, Len(s))
    ELSE s

\* strings.Split(s, sep) for a one-character separator: the parts between the
\* separators, the empty string giving one empty part
RECURSIVE SplitFrom(_, _, _, _)
SplitFrom(s, sep, i, part) ==
    IF i > Len(s) THEN << part >>
    ELSE IF s[i] = sep THEN << part >> \o SplitFrom(s, sep, i + 1, << >>)
    ELSE SplitFrom(s, sep, i + 1, Append(part, s[i]))

Split(s, sep) == SplitFrom(s, sep, 1, << >>)

RECURSIVE DecimalValue(_, _)
DecimalValue(s, acc) ==
    IF s = << >> THEN acc
    ELSE DecimalValue(Tail(s), acc * 10 + DigitValue(Head(s)))

\* n, _ := strconv.Atoi(s): an optional sign and decimal digits; anything else
\* is a syntax error, whose value is 0 (the callers drop the error)
Atoi(s) ==
    LET signed == Len(s) >= 1 /\ s[1] \in {"+", "-"}
        body == IF signed THEN Tail(s) ELSE s
    IN  IF body = << >> \/ \E i \in DOMAIN body : ~IsDigit(body[i]) THEN 0
        ELSE IF signed /\ s[1] = "-" THEN 0 - DecimalValue(body, 0)
        ELSE DecimalValue(body, 0)

\* normalizeVersion(version)
normalizeVersion(version) == TrimPrefix(version, << "v" >>)

\* parseVersion(version): << major, minor >>
parseVersion(version) ==
    LET parts == Split(version, ".")
    IN  IF Len(parts) < 2 THEN << 0, 0 >>
        ELSE << Atoi(parts[1]), Atoi(parts[2]) >>

\* isVersionGreaterOrEqual(version, minVersion)
isVersionGreaterOrEqual(version, minVersion) ==
    LET v1 == parseVersion(normalizeVersion(version))
        v2 == parseVersion(normalizeVersion(minVersion))
    IN  IF v1[1] > v2[1] THEN TRUE
        ELSE IF v1[1] < v2[1] THEN FALSE
        ELSE v1[2] >= v2[2]

RECURSIVE compareParts(_, _, _, _)
compareParts(parts1, parts2, i, maxLen) ==
    IF i > maxLen THEN 0
    ELSE LET n1 == IF i <= Len(parts1) THEN Atoi(parts1[i]) ELSE 0
             n2 == IF i <= Len(parts2) THEN Atoi(parts2[i]) ELSE 0
         IN  IF n1 > n2 THEN 1
             ELSE IF n1 < n2 THEN 0 - 1
             ELSE compareParts(parts1, parts2, i + 1, maxLen)

\* the comparison stopping after the major segment
compareVersionsMajorOnly(v1, v2) ==
    LET parts1 == Split(TrimPrefix(v1, << "v" >>), ".")
        parts2 == Split(TrimPrefix(v2, << "v" >>), ".")
    IN  compareParts(parts1, parts2, 1, 1)

\* compareVersions(v1, v2)
compareVersions(v1, v2) ==
    LET parts1 == Split(TrimPrefix(v1, << "v" >>), ".")
        parts2 == Split(TrimPrefix(v2, << "v" >>), ".")
        maxLen == IF Len(parts2) > Len(parts1) THEN Len(parts2) ELSE Len(parts1)
    IN  compareParts(parts1, parts2, 1, maxLen)

(***************************************************************************)
(* internal/knowledge: the API knowledge base.  A record is an             *)
(* APIDeprecation: Group, Version, Kind, DeprecatedIn, RemovedIn,          *)
(* ReplacementAPI, MigrationNotes.                                         *)
(***************************************************************************)
NewAPIKnowledgeBase == [deprecations |-> EmptyMap, apiList |-> << >>]

\* makeKey(group, version, kind)
makeKey(group, version, kind) ==
    IF group = << >>
    THEN TXT_core \o S_slash \o version \o S_slash \o kind
    ELSE group \o S_slash \o version \o S_slash \o kind

\* kb.LoadFromFile(path), the file holding the records of the list
\* deprecations
RECURSIVE APILoadFromFile(_, _)
APILoadFromFile(kb, deprecations) ==
    IF deprecations = << >> THEN kb
    ELSE LET dep == Head(deprecations)
             key == makeKey(dep.Group, dep.Version, dep.Kind)
         IN  APILoadFromFile(
                 [deprecations |-> MapPut(kb.deprecations, key, dep),
                  apiList |-> Append(kb.apiList, dep)],
                 Tail(deprecations))

NilDeprecation == [nil |-> TRUE]

\* kb.CheckDeprecation(group, version, kind)
CheckDeprecation(kb, group, version, kind) ==
    LET key == makeKey(group, version, kind)
    IN  IF key \in DOMAIN kb.deprecations
        THEN [dep |-> kb.deprecations[key], found |-> TRUE]
        ELSE [dep |-> NilDeprecation, found |-> FALSE]

\* kb.IsAPIRemoved(group, version, kind, targetVersion)
IsAPIRemoved(kb, group, version, kind, targetVersion) ==
    LET r == CheckDeprecation(kb, group, version, kind)
    IN  IF ~r.found THEN FALSE
        ELSE isVersionGreaterOrEqual(targetVersion, r.dep.RemovedIn)

\* kb.IsAPIDeprecated(group, version, kind, targetVersion)
IsAPIDeprecated(kb, group, version, kind, targetVersion) ==
    LET r == CheckDeprecation(kb, group, version, kind)
    IN  IF ~r.found THEN FALSE
        ELSE LET deprecated == isVersionGreaterOrEqual(targetVersion, r.dep.DeprecatedIn)
                 removed == isVersionGreaterOrEqual(targetVersion, r.dep.RemovedIn)
             IN  deprecated /\ ~removed

(***************************************************************************)
(* internal/knowledge: the chart knowledge base.  A ChartInfo has          *)
(* ChartName and Versions, the list of ChartCompatibility entries          *)
(* (ChartVersion, CompatibleWith, KnownIssues).                            *)
(***************************************************************************)
NewChartKnowledgeBase == [charts |-> EmptyMap]

\* kb.LoadFromFile(path), the file holding the charts of the list charts
RECURSIVE ChartLoadFromFile(_, _)
ChartLoadFromFile(kb, charts) ==
    IF charts = << >> THEN kb
    ELSE ChartLoadFromFile(
             [charts |-> MapPut(kb.charts, Head(charts).ChartName, Head(charts))],
             Tail(charts))

\* the check that reports a missing chart version as incompatible
CheckCompatibilityMissingVersion(kb, chartName, chartVersion, kubeVersion) ==
    IF chartName \notin DOMAIN kb.charts
    THEN [compatible |-> TRUE, issues |-> << >>]
    ELSE
    LET versions == kb.charts[chartName].Versions
        matches == {i \in DOMAIN versions : versions[i].ChartVersion = chartVersion}
        first == CHOOSE i \in matches : \A j \in matches : i <= j
        normalizedKube == normalizeVersion(kubeVersion)
    IN  IF matches = {}
        THEN [compatible |-> FALSE, issues |-> << >>]
        ELSE IF \E i \in DOMAIN versions[first].CompatibleWith :
                    normalizeVersion(versions[first].CompatibleWith[i]) = normalizedKube
        THEN [compatible |-> TRUE, issues |-> versions[first].KnownIssues]
        ELSE [compatible |-> FALSE, issues |-> versions[first].KnownIssues]

\* kb.CheckCompatibility(chartName, chartVersion, kubeVersion): the first entry
\* of that chart version decides; issues is nil (no issues) when the chart or
\* the chart version is not found
CheckCompatibility(kb, chartName, chartVersion, kubeVersion) ==
    IF chartName \notin DOMAIN kb.charts
    THEN [compatible |-> TRUE, issues |-> << >>]
    ELSE
    LET versions == kb.charts[chartName].Versions
        matches == {i \in DOMAIN versions : versions[i].ChartVersion = chartVersion}
        first == CHOOSE i \in matches : \A j \in matches : i <= j
        normalizedKube == normalizeVersion(kubeVersion)
    IN  IF matches = {}
        THEN [compatible |-> TRUE, issues |-> << >>]
        ELSE IF \E i \in DOMAIN versions[first].CompatibleWith :
                    normalizeVersion(versions[first].CompatibleWith[i]) = normalizedKube
        THEN [compatible |-> TRUE, issues |-> versions[first].KnownIssues]
        ELSE [compatible |-> FALSE, issues |-> versions[first].KnownIssues]

TXT_ChartNotInKB == << "Chart not in knowledge base - compatibility unknown" >>

TXT_CurrentCompatible == << "Current version is compatible" >>

TXT_UpgradeRequired == << "Upgrade required for Kubernetes " >>

TXT_NoCompatible == << "No compatible version found for Kubernetes " >>

\* the inner loop comparing the listed versions as written, v prefix kept
compatibleWithTargetLiteral(compat, normalizedTarget) ==
    \E i \in DOMAIN compat.CompatibleWith : compat.CompatibleWith[i] = normalizedTarget

\* the inner loop over compat.CompatibleWith
compatibleWithTarget(compat, normalizedTarget) ==
    \E i \in DOMAIN compat.CompatibleWith :
        normalizeVersion(compat.CompatibleWith[i]) = normalizedTarget

\* the search without its compatibility test
RECURSIVE bestVersionFromIncompatible(_, _, _, _)
bestVersionFromIncompatible(versions, i, normalizedTarget, best) ==
    IF i > Len(versions) THEN best
    ELSE IF Len(versions[i].KnownIssues) > 0
         THEN bestVersionFromIncompatible(versions, i + 1, normalizedTarget, best)
    ELSE IF best = 0
            \/ compareVersions(versions[i].ChartVersion, versions[best].ChartVersion) > 0
         THEN bestVersionFromIncompatible(versions, i + 1, normalizedTarget, i)
    ELSE bestVersionFromIncompatible(versions, i + 1, normalizedTarget, best)

\* the search without its known-issues test
RECURSIVE bestVersionFromWithIssues(_, _, _, _)
bestVersionFromWithIssues(versions, i, normalizedTarget, best) ==
    IF i > Len(versions) THEN best
    ELSE IF ~compatibleWithTarget(versions[i], normalizedTarget)
         THEN bestVersionFromWithIssues(versions, i + 1, normalizedTarget, best)
    ELSE IF best = 0
            \/ compareVersions(versions[i].ChartVersion, versions[best].ChartVersion) > 0
         THEN bestVersionFromWithIssues(versions, i + 1, normalizedTarget, i)
    ELSE bestVersionFromWithIssues(versions, i + 1, normalizedTarget, best)

\* "Find the best compatible version": the index of bestVersion in versions,
\* 0 for nil
RECURSIVE bestVersionFrom(_, _, _, _)
bestVersionFrom(versions, i, normalizedTarget, best) ==
    IF i > Len(versions) THEN best
    ELSE IF ~compatibleWithTarget(versions[i], normalizedTarget)
         THEN bestVersionFrom(versions, i + 1, normalizedTarget, best)
    ELSE IF Len(versions[i].KnownIssues) > 0
         THEN bestVersionFrom(versions, i + 1, normalizedTarget, best)
    ELSE IF best = 0
            \/ compareVersions(versions[i].ChartVersion, versions[best].ChartVersion) > 0
         THEN bestVersionFrom(versions, i + 1, normalizedTarget, i)
    ELSE bestVersionFrom(versions, i + 1, normalizedTarget, best)

\* the search that carries the current entry's known issues whether or not
\* the entry lists the target
FindCompatibleChartVersionAllIssues(kb, chartName, currentVersion, targetK8sVersion) ==
    IF chartName \notin DOMAIN kb.charts
    THEN [ChartName |-> chartName, CurrentVersion |-> currentVersion,
          RecommendedVersion |-> << >>, IsCompatible |-> TRUE,
          Message |-> TXT_ChartNotInKB, KnownIssues |-> << >>]
    ELSE
    LET versions == kb.charts[chartName].Versions
        normalizedTarget == normalizeVersion(targetK8sVersion)
        matches == {i \in DOMAIN versions : versions[i].ChartVersion = currentVersion}
        first == CHOOSE i \in matches : \A j \in matches : i <= j
        currentCompatible ==
            matches # {} /\ compatibleWithTarget(versions[first], normalizedTarget)
        currentIssues == IF matches # {} THEN versions[first].KnownIssues ELSE << >>
        best == bestVersionFrom(versions, 1, normalizedTarget, 0)
    IN  IF currentCompatible /\ Len(currentIssues) = 0
        THEN [ChartName |-> chartName, CurrentVersion |-> currentVersion,
              RecommendedVersion |-> << >>, IsCompatible |-> TRUE,
              Message |-> TXT_CurrentCompatible, KnownIssues |-> << >>]
        ELSE IF best # 0
        THEN [ChartName |-> chartName, CurrentVersion |-> currentVersion,
              RecommendedVersion |-> versions[best].ChartVersion, IsCompatible |-> FALSE,
              Message |-> TXT_UpgradeRequired \o targetK8sVersion,
              KnownIssues |-> currentIssues]
        ELSE [ChartName |-> chartName, CurrentVersion |-> currentVersion,
              RecommendedVersion |-> << >>, IsCompatible |-> FALSE,
              Message |-> TXT_NoCompatible \o targetK8sVersion,
              KnownIssues |-> currentIssues]

\* kb.FindCompatibleChartVersion(chartName, currentVersion, targetK8sVersion)
FindCompatibleChartVersion(kb, chartName, currentVersion, targetK8sVersion) ==
    IF chartName \notin DOMAIN kb.charts
    THEN [ChartName |-> chartName, CurrentVersion |-> currentVersion,
          RecommendedVersion |-> << >>, IsCompatible |-> TRUE,
          Message |-> TXT_ChartNotInKB, KnownIssues |-> << >>]
    ELSE
    LET versions == kb.charts[chartName].Versions
        normalizedTarget == normalizeVersion(targetK8sVersion)
        matches == {i \in DOMAIN versions : versions[i].ChartVersion = currentVersion}
        first == CHOOSE i \in matches : \A j \in matches : i <= j
        currentCompatible ==
            matches # {} /\ compatibleWithTarget(versions[first], normalizedTarget)
        currentIssues == IF currentCompatible THEN versions[first].KnownIssues ELSE << >>
        best == bestVersionFrom(versions, 1, normalizedTarget, 0)
    IN  IF currentCompatible /\ Len(currentIssues) = 0
        THEN [ChartName |-> chartName, CurrentVersion |-> currentVersion,
              RecommendedVersion |-> << >>, IsCompatible |-> TRUE,
              Message |-> TXT_CurrentCompatible, KnownIssues |-> << >>]
        ELSE IF best # 0
        THEN [ChartName |-> chartName, CurrentVersion |-> currentVersion,
              RecommendedVersion |-> versions[best].ChartVersion, IsCompatible |-> FALSE,
              Message |-> TXT_UpgradeRequired \o targetK8sVersion,
              KnownIssues |-> currentIssues]
        ELSE [ChartName |-> chartName, CurrentVersion |-> currentVersion,
              RecommendedVersion |-> << >>, IsCompatible |-> FALSE,
              Message |-> TXT_NoCompatible \o targetK8sVersion,
              KnownIssues |-> currentIssues]

(***************************************************************************)
(* internal/planner                                                        *)
(***************************************************************************)
StepPreCheck == "precheck"
StepBackup == "backup"
StepAPIMigration == "api_migration"
StepChartUpgrade == "chart_upgrade"
StepClusterUpgrade == "cluster_upgrade"
StepValidation == "validation"

\* the nil *UpgradePlan
NilPlan == [nil |-> TRUE]

\* NewPlanner: both maps empty
NewPlanner == [graph |-> EmptyMap, edges |-> EmptyMap]

\* sanitizeID: "/", "." and " " become "-", then the string is lower-cased
sanitizeID(s) ==
    [i \in 1..Len(s) |->
        ToLowerChar[IF s[i] \in {"/", ".", " "} THEN "-" ELSE s[i]]]

\* addNode
addNode(p, step) == [p EXCEPT !.graph = MapPut(p.graph, step.ID, step)]

\* addEdge
addEdge(p, from, to) ==
    [p EXCEPT !.edges = MapPut(p.edges, from, Append(MapGet(p.edges, from, << >>), to))]

\* key := fmt.Sprintf("%s/%s/%s", api.Group, api.Version, api.Kind)
apiMapKey(api) == api.Group \o S_slash \o api.Version \o S_slash \o api.Kind

\* apiMap of createAPIMigrationSteps: a later list entry overwrites an earlier
\* one with the same key
apiMapOf(assessment) ==
    LET apis == assessment.DeprecatedManifestAPIs
        keys == {apiMapKey(apis[i]) : i \in 1..Len(apis)}
        last(k) == CHOOSE i \in 1..Len(apis) :
                      /\ apiMapKey(apis[i]) = k
                      /\ \A j \in (i + 1)..Len(apis) : apiMapKey(apis[j]) # k
    IN  [k \in keys |-> apis[last(k)]]

\* the step createAPIMigrationSteps builds for one apiMap entry
apiMigrationStep(key, api) ==
    LET gv == IF api.Group = << >> THEN api.Version
              ELSE api.Group \o S_slash \o api.Version
    IN  [ID |-> PFX_migrate_api \o sanitizeID(key),
         Description |-> TXT_Migrate \o gv \o S_space \o api.Kind \o TXT_to \o api.ReplacementAPI,
         Type |-> StepAPIMigration,
         Dependencies |-> << >>,
         Impact |-> api.ImpactLevel,
         Order |-> 0]

\* createAPIMigrationSteps; iter is the order in which the range over apiMap
\* visits its keys
createAPIMigrationSteps(assessment, iter) ==
    LET apiMap == apiMapOf(assessment)
    IN  [i \in 1..Len(iter) |-> apiMigrationStep(iter[i], apiMap[iter[i]])]

\* createChartUpgradeSteps
createChartUpgradeSteps(assessment) ==
    LET charts == assessment.IncompatibleCharts
    IN  [i \in 1..Len(charts) |->
            [ID |-> PFX_upgrade_chart \o sanitizeID(charts[i].ChartName),
             Description |-> TXT_Upgrade \o charts[i].ChartName \o TXT_from
                                \o charts[i].CurrentVersion \o TXT_to
                                \o charts[i].RecommendedVersion,
             Type |-> StepChartUpgrade,
             Dependencies |-> << >>,
             Impact |-> charts[i].ImpactLevel,
             Order |-> 0]]

StepIDs(steps) == [i \in 1..Len(steps) |-> steps[i].ID]

\* GeneratePlan without the two make() calls: the maps of the last call stay
resetGraphOmitted(p) == p

\* GeneratePlan, the two make() calls
resetGraph(p) == NewPlanner

\* GeneratePlan, steps 1 and 2: precheck, backup and the edge between them
addPrecheckAndBackup(p) ==
    LET precheck == [ID |-> ID_precheck, Description |-> DESC_precheck,
                     Type |-> StepPreCheck, Dependencies |-> << >>,
                     Impact |-> ImpactLow, Order |-> 0]
        backup == [ID |-> ID_backup, Description |-> DESC_backup,
                   Type |-> StepBackup, Dependencies |-> << ID_precheck >>,
                   Impact |-> ImpactHigh, Order |-> 0]
    IN  addEdge(addNode(addNode(p, precheck), backup), ID_precheck, ID_backup)

\* GeneratePlan, step 3: the loop over apiMigrationSteps
RECURSIVE addAPIMigrations(_, _)
addAPIMigrations(p, apiSteps) ==
    IF apiSteps = << >> THEN p
    ELSE LET step == [Head(apiSteps) EXCEPT
                         !.Dependencies = Append(@, ID_backup)]
         IN  addAPIMigrations(addEdge(addNode(p, step), ID_backup, step.ID),
                              Tail(apiSteps))

RECURSIVE addEdgesFrom(_, _, _)
addEdgesFrom(p, froms, to) ==
    IF froms = << >> THEN p
    ELSE addEdgesFrom(addEdge(p, Head(froms), to), Tail(froms), to)

\* GeneratePlan, step 4: the loop over chartUpgradeSteps
RECURSIVE addChartUpgrades(_, _, _)
addChartUpgrades(p, apiSteps, chartSteps) ==
    IF chartSteps = << >> THEN p
    ELSE LET step == [Head(chartSteps) EXCEPT
                         !.Dependencies = Append(@, ID_backup) \o StepIDs(apiSteps)]
         IN  addChartUpgrades(addNode(addEdgesFrom(p, StepIDs(apiSteps), step.ID), step),
                              apiSteps, Tail(chartSteps))

\* step 5 without the loop that adds the edges chart step -> cluster-upgrade
addClusterUpgradeNoChartEdges(p, assessment, apiSteps, chartSteps) ==
    LET clusterUpgrade ==
            [ID |-> ID_cluster_upgrade,
             Description |-> TXT_UpgradeKubernetesFrom \o assessment.CurrentVersion
                                \o TXT_to \o assessment.TargetVersion,
             Type |-> StepClusterUpgrade,
             Dependencies |-> << ID_backup >> \o StepIDs(apiSteps) \o StepIDs(chartSteps),
             Impact |-> ImpactCritical,
             Order |-> 0]
        p1 == addEdgesFrom(p, StepIDs(apiSteps), ID_cluster_upgrade)
    IN  addNode(p1, clusterUpgrade)

\* GeneratePlan, step 5: cluster-upgrade and its incoming edges
addClusterUpgrade(p, assessment, apiSteps, chartSteps) ==
    LET clusterUpgrade ==
            [ID |-> ID_cluster_upgrade,
             Description |-> TXT_UpgradeKubernetesFrom \o assessment.CurrentVersion
                                \o TXT_to \o assessment.TargetVersion,
             Type |-> StepClusterUpgrade,
             Dependencies |-> << ID_backup >> \o StepIDs(apiSteps) \o StepIDs(chartSteps),
             Impact |-> ImpactCritical,
             Order |-> 0]
        p1 == addEdgesFrom(p, StepIDs(apiSteps), ID_cluster_upgrade)
        p2 == addEdgesFrom(p1, StepIDs(chartSteps), ID_cluster_upgrade)
    IN  addNode(p2, clusterUpgrade)

\* GeneratePlan, step 6: validation and its incoming edge
addValidation(p) ==
    LET validation == [ID |-> ID_validation, Description |-> DESC_validation,
                       Type |-> StepValidation,
                       Dependencies |-> << ID_cluster_upgrade >>,
                       Impact |-> ImpactMedium, Order |-> 0]
    IN  addEdge(addNode(p, validation), ID_cluster_upgrade, ID_validation)

\* topologicalSort, "Calculate in-degrees": every graph id starts at 0 and
\* every occurrence of an id in an edge list adds one (an id that is in no
\* graph entry is created by the increment)
inDegreeOf(p) ==
    LET slots == UNION {{<< f, i >> : i \in 1..Len(p.edges[f])} : f \in DOMAIN p.edges}
        targets == {p.edges[s[1]][s[2]] : s \in slots}
    IN  [id \in (DOMAIN p.graph) \cup targets |->
            Cardinality({s \in slots : p.edges[s[1]][s[2]] = id})]

\* the reduction that counts an edge listed twice once
RECURSIVE reduceNeighborsDistinct(_, _, _)
reduceNeighborsDistinct(inDegree, queue, neighbors) ==
    IF neighbors = << >> THEN [inDegree |-> inDegree, queue |-> queue]
    ELSE IF \E i \in 2..Len(neighbors) : neighbors[i] = Head(neighbors)
    THEN reduceNeighborsDistinct(inDegree, queue, Tail(neighbors))
    ELSE LET n == Head(neighbors)
             d == [inDegree EXCEPT ![n] = @ - 1]
         IN  reduceNeighborsDistinct(d, IF d[n] = 0 THEN Append(queue, n) ELSE queue,
                                     Tail(neighbors))

\* topologicalSort, "Reduce in-degree for neighbors"
RECURSIVE reduceNeighbors(_, _, _)
reduceNeighbors(inDegree, queue, neighbors) ==
    IF neighbors = << >> THEN [inDegree |-> inDegree, queue |-> queue]
    ELSE LET n == Head(neighbors)
             d == [inDegree EXCEPT ![n] = @ - 1]
         IN  reduceNeighbors(d, IF d[n] = 0 THEN Append(queue, n) ELSE queue,
                             Tail(neighbors))

\* topologicalSort, the loop "for len(queue) > 0".  p.graph[current] of an id
\* that is not in the graph is a nil *UpgradeStep, and step.Order = order on
\* it is a nil-pointer panic.
RECURSIVE sortLoop(_, _, _, _)
sortLoop(p, inDegree, queue, result) ==
    IF queue = << >> THEN [p |-> p, result |-> result, panic |-> FALSE]
    ELSE LET sorted == SortStrings(queue)
             current == Head(sorted)
         IN  IF current \notin DOMAIN p.graph
             THEN [p |-> p, result |-> result, panic |-> TRUE]
             ELSE LET step == [p.graph[current] EXCEPT !.Order = Len(result)]
                      p1 == [p EXCEPT !.graph[current] = step]
                      r == reduceNeighbors(inDegree, Tail(sorted),
                                           MapGet(p.edges, current, << >>))
                  IN  sortLoop(p1, r.inDegree, r.queue, Append(result, step))

\* topologicalSort (Kahn's algorithm).  The seed queue is filled by a range
\* over the inDegree map; the loop sorts the queue before it takes the first
\* element, so the order of the seed does not reach the result.
topologicalSort(p) ==
    LET inDegree == inDegreeOf(p)
        ready == {id \in DOMAIN inDegree : inDegree[id] = 0}
        seed == CHOOSE s \in IterationOrders(ready) : TRUE
        run == sortLoop(p, inDegree, seed, << >>)
    IN  IF run.panic THEN [p |-> run.p, steps |-> << >>, err |-> "panic"]
        ELSE IF Len(run.result) # Cardinality(DOMAIN run.p.graph)
             THEN [p |-> run.p, steps |-> << >>, err |-> "cycle detected in dependency graph"]
        ELSE [p |-> run.p, steps |-> run.result, err |-> ""]

\* the check that only looks at the number of steps
ValidatePlanStepsOnly(upgradePlan) ==
    IF Len(upgradePlan.Steps) = 0 THEN "plan has no steps" ELSE ""

\* p.ValidatePlan(plan): the error, "" for nil.  The ids that the second
\* message names are left out of the text.
ValidatePlan(upgradePlan) ==
    LET stepIDs == {upgradePlan.Steps[i].ID : i \in DOMAIN upgradePlan.Steps}
    IN  IF Len(upgradePlan.Steps) = 0 THEN "plan has no steps"
        ELSE IF \E i \in DOMAIN upgradePlan.Steps :
                    \E k \in DOMAIN upgradePlan.Steps[i].Dependencies :
                        upgradePlan.Steps[i].Dependencies[k] \notin stepIDs
        THEN "step depends on non-existent step"
        ELSE ""

\* the estimate with the half hour rounded up
estimateTimelineRoundedUp(stepCount) ==
    LET hours == (stepCount * 30 + 30) \div 60
    IN  IF hours < 1 THEN << "Less than 1 hour" >>
        ELSE IF hours = 1 THEN << "Approximately 1 hour" >>
        ELSE << "Approximately", hours, "hours" >>

\* estimateTimeline
estimateTimeline(stepCount) ==
    LET hours == (stepCount * 30) \div 60
    IN  IF hours < 1 THEN << "Less than 1 hour" >>
        ELSE IF hours = 1 THEN << "Approximately 1 hour" >>
        ELSE << "Approximately", hours, "hours" >>

\* GeneratePlan, "Build plan".  A line of OrderedUpgradeSteps,
\* fmt.Sprintf("%d. [%s] %s", i+1, step.Type, step.Description), is the
\* record of its three arguments.
buildPlan(assessment, orderedSteps) ==
    [FromVersion |-> assessment.CurrentVersion,
     ToVersion |-> assessment.TargetVersion,
     Steps |-> orderedSteps,
     OrderedUpgradeSteps |->
        [i \in 1..Len(orderedSteps) |->
            [n |-> i, type |-> orderedSteps[i].Type, text |-> orderedSteps[i].Description]],
     Timeline |-> estimateTimeline(Len(orderedSteps)),
     TotalSteps |-> Len(orderedSteps)]

\* GeneratePlan, "Perform topological sort" to the return
sortAndBuild(p, assessment) ==
    LET sorted == topologicalSort(p)
    IN  IF sorted.err = "panic"
        THEN [p |-> sorted.p, plan |-> NilPlan, err |-> "panic"]
        ELSE IF sorted.err # ""
        THEN [p |-> sorted.p, plan |-> NilPlan, err |-> "failed to create upgrade plan"]
        ELSE [p |-> sorted.p, plan |-> buildPlan(assessment, sorted.steps), err |-> ""]

\* GeneratePlan run from planner state p on an assessment, with iter the
\* order in which the range over apiMap visits its keys
runGeneratePlan(p, assessment, iter) ==
    LET apiSteps == createAPIMigrationSteps(assessment, iter)
        chartSteps == createChartUpgradeSteps(assessment)
        p1 == addPrecheckAndBackup(resetGraph(p))
        p2 == addAPIMigrations(p1, apiSteps)
        p3 == addChartUpgrades(p2, apiSteps, chartSteps)
        p4 == addClusterUpgrade(p3, assessment, apiSteps, chartSteps)
        p5 == addValidation(p4)
    IN  sortAndBuild(p5, assessment)

(***************************************************************************)
(* Inputs of the planner.                                                  *)
(***************************************************************************)
G_a_dot_b == <<"a", ".", "b">>
G_a_dash_b == <<"a", "-", "b">>
V_v1 == <<"v", "1">>
K_K == <<"K">>
R_v2 == <<"v", "2">>
C_x == <<"x">>
C_y == <<"y">>
NS_n1 == <<"n", "1">>
NS_n2 == <<"n", "2">>
KV_1_21 == <<"1", ".", "2", "1">>
KV_1_25 == <<"1", ".", "2", "5">>
KV_1_22 == <<"1", ".", "2", "2">>
CV_20_0_0 == <<"2", "0", ".", "0", ".", "0">>
CV_25_0_0 == <<"2", "5", ".", "0", ".", "0">>

SeqsUpTo(S, n) == UNION {[1..k -> S] : k \in 0..n}

NilAssessment == [nil |-> TRUE]

\* a DeprecatedAPIImpact as ComputeUpgradeImpact fills it
apiImpact(group, version, kind, level, source) ==
    [Group |-> group, Version |-> version, Kind |-> kind, AffectedCount |-> 1,
     ImpactLevel |-> level, RemovedIn |-> KV_1_22, ReplacementAPI |-> R_v2,
     MigrationNotes |-> "notes", Source |-> source]

\* a ChartImpact as ComputeUpgradeImpact fills it
chartImpact(chartName, namespace) ==
    [ChartName |-> chartName, Namespace |-> namespace, CurrentVersion |-> CV_20_0_0,
     RecommendedVersion |-> CV_25_0_0, ImpactLevel |-> ImpactHigh,
     Issues |-> << >>, Message |-> "Upgrade required"]

\* ComputeUpgradeImpact, "Calculate overall risk"
withOverallRisk(assessment) ==
    LET counted == [assessment EXCEPT
                       !.TotalIssues = Len(assessment.DeprecatedManifestAPIs)
                                         + Len(assessment.DeprecatedCRDAPIs)
                                         + Len(assessment.IncompatibleCharts)]
    IN  [counted EXCEPT !.OverallRisk = calculateOverallRisk(counted)]

\* two manifest APIs whose keys differ and sanitize to the same step id
PlanManifestImpacts ==
    {apiImpact(G_a_dot_b, V_v1, K_K, ImpactCritical, "manifest"),
     apiImpact(G_a_dash_b, V_v1, K_K, ImpactCritical, "manifest")}

\* the planner never reads DeprecatedCRDAPIs: the list is empty or has one entry
PlanCRDLists == {<< >>, << apiImpact(G_a_dot_b, V_v1, K_K, ImpactHigh, "crd") >>}

\* a release of chart x and a release of chart y; a list may hold the entry of
\* chart x twice (two releases of the chart)
PlanChartImpacts == {chartImpact(C_x, NS_n1), chartImpact(C_y, NS_n2)}

PlanAssessments ==
    {withOverallRisk([ClusterID |-> "c1", CurrentVersion |-> KV_1_21,
                      TargetVersion |-> KV_1_25,
                      DeprecatedManifestAPIs |-> apis, DeprecatedCRDAPIs |-> crdapis,
                      IncompatibleCharts |-> charts,
                      OverallRisk |-> ImpactNone, TotalIssues |-> 0]) :
        apis \in SeqsUpTo(PlanManifestImpacts, MaxPlanAPIs),
        crdapis \in PlanCRDLists,
        charts \in SeqsUpTo(PlanChartImpacts, MaxPlanCharts)}

(***************************************************************************)
(* internal/analysis: ComputeUpgradeImpact.                                *)
(***************************************************************************)
\* DeprecatedAPIImpact{...} of the manifest and the CRD loop
deprecatedAPIImpact(group, version, kind, level, dep, source) ==
    [Group |-> group, Version |-> version, Kind |-> kind, AffectedCount |-> 1,
     ImpactLevel |-> level, RemovedIn |-> dep.RemovedIn,
     ReplacementAPI |-> dep.ReplacementAPI, MigrationNotes |-> dep.MigrationNotes,
     Source |-> source]

\* the manifest loop with IsAPIDeprecated in the place of IsAPIRemoved
RECURSIVE checkManifestAPIsDeprecated(_, _, _)
checkManifestAPIsDeprecated(kb, apis, targetVersion) ==
    IF apis = << >> THEN << >>
    ELSE LET api == Head(apis)
             rest == checkManifestAPIsDeprecated(kb, Tail(apis), targetVersion)
         IN  IF IsAPIDeprecated(kb, api.Group, api.Version, api.Kind, targetVersion)
             THEN << deprecatedAPIImpact(api.Group, api.Version, api.Kind, ImpactCritical,
                        CheckDeprecation(kb, api.Group, api.Version, api.Kind).dep,
                        "manifest") >> \o rest
             ELSE rest

\* the manifest loop that rates its entries high, as the CRD loop does
RECURSIVE checkManifestAPIsHigh(_, _, _)
checkManifestAPIsHigh(kb, apis, targetVersion) ==
    IF apis = << >> THEN << >>
    ELSE LET api == Head(apis)
             rest == checkManifestAPIsHigh(kb, Tail(apis), targetVersion)
         IN  IF IsAPIRemoved(kb, api.Group, api.Version, api.Kind, targetVersion)
             THEN << deprecatedAPIImpact(api.Group, api.Version, api.Kind, ImpactHigh,
                        CheckDeprecation(kb, api.Group, api.Version, api.Kind).dep,
                        "manifest") >> \o rest
             ELSE rest

\* "Check ManifestAPIs": the entries appended to DeprecatedManifestAPIs
RECURSIVE checkManifestAPIs(_, _, _)
checkManifestAPIs(kb, apis, targetVersion) ==
    IF apis = << >> THEN << >>
    ELSE LET api == Head(apis)
             rest == checkManifestAPIs(kb, Tail(apis), targetVersion)
         IN  IF IsAPIRemoved(kb, api.Group, api.Version, api.Kind, targetVersion)
             THEN << deprecatedAPIImpact(api.Group, api.Version, api.Kind, ImpactCritical,
                        CheckDeprecation(kb, api.Group, api.Version, api.Kind).dep,
                        "manifest") >> \o rest
             ELSE rest

\* "Check each served version" of one CRD
RECURSIVE checkCRDVersions(_, _, _, _)
checkCRDVersions(kb, crd, versions, targetVersion) ==
    IF versions = << >> THEN << >>
    ELSE LET version == Head(versions)
             rest == checkCRDVersions(kb, crd, Tail(versions), targetVersion)
         IN  IF IsAPIRemoved(kb, crd.Group, version, crd.Kind, targetVersion)
             THEN << deprecatedAPIImpact(crd.Group, version, crd.Kind, ImpactHigh,
                        CheckDeprecation(kb, crd.Group, version, crd.Kind).dep,
                        "crd") >> \o rest
             ELSE rest

\* "Check CRDs": the entries appended to DeprecatedCRDAPIs
RECURSIVE checkCRDs(_, _, _)
checkCRDs(kb, crdRows, targetVersion) ==
    IF crdRows = << >> THEN << >>
    ELSE checkCRDVersions(kb, Head(crdRows), Head(crdRows).Versions, targetVersion)
            \o checkCRDs(kb, Tail(crdRows), targetVersion)

\* "Check Helm Charts": the entries appended to IncompatibleCharts
RECURSIVE checkHelmReleases(_, _, _)
checkHelmReleases(kb, releases, targetVersion) ==
    IF releases = << >> THEN << >>
    ELSE LET release == Head(releases)
             recommendation == FindCompatibleChartVersion(kb, release.Chart,
                                   release.ChartVersion, targetVersion)
             rest == checkHelmReleases(kb, Tail(releases), targetVersion)
         IN  IF ~recommendation.IsCompatible
             THEN << [ChartName |-> release.Chart, Namespace |-> release.Namespace,
                      CurrentVersion |-> release.ChartVersion,
                      RecommendedVersion |-> recommendation.RecommendedVersion,
                      ImpactLevel |-> ImpactHigh, Issues |-> recommendation.KnownIssues,
                      Message |-> recommendation.Message] >> \o rest
             ELSE rest

\* cluster.QueryManifestApis(), QueryCrds(), QueryHelmReleases(): the rows of
\* the cluster
rowsOfCluster(rows, clusterID) == SelectSeq(rows, LAMBDA r : r.ClusterID = clusterID)

\* the inventory queries of ComputeUpgradeImpact, and none: the query that fails
QueryFailures == {"none", "manifest APIs", "CRDs", "helm releases"}

\* the call that, when the Helm releases cannot be read, returns what it has
\* assessed so far
runComputeUpgradeImpactPartial(a, clusterID, targetVersion, failedQuery) ==
    IF clusterID \notin DOMAIN a.store.clusters
    THEN [assessment |-> NilAssessment, err |-> "failed to get cluster"]
    ELSE IF failedQuery = "manifest APIs"
    THEN [assessment |-> NilAssessment, err |-> "failed to query manifest APIs"]
    ELSE IF failedQuery = "CRDs"
    THEN [assessment |-> NilAssessment, err |-> "failed to query CRDs"]
    ELSE [assessment |->
             withOverallRisk(
                 [ClusterID |-> clusterID,
                  CurrentVersion |-> a.store.clusters[clusterID].KubeVersion,
                  TargetVersion |-> targetVersion,
                  DeprecatedManifestAPIs |->
                      checkManifestAPIs(a.apiKB,
                          rowsOfCluster(a.store.manifestApis, clusterID), targetVersion),
                  DeprecatedCRDAPIs |->
                      checkCRDs(a.apiKB,
                          rowsOfCluster(a.store.crds, clusterID), targetVersion),
                  IncompatibleCharts |->
                      IF failedQuery = "helm releases" THEN << >>
                      ELSE checkHelmReleases(a.chartKB,
                               rowsOfCluster(a.store.helmReleases, clusterID),
                               targetVersion),
                  OverallRisk |-> ImpactNone, TotalIssues |-> 0]),
          err |-> IF failedQuery = "helm releases"
                  THEN "failed to query helm releases" ELSE ""]

\* a.ComputeUpgradeImpact(ctx, clusterID, targetVersion) on the analyzer a, the
\* query failedQuery returning an error
runComputeUpgradeImpact(a, clusterID, targetVersion, failedQuery) ==
    IF clusterID \notin DOMAIN a.store.clusters
    THEN [assessment |-> NilAssessment, err |-> "failed to get cluster"]
    ELSE IF failedQuery = "manifest APIs"
    THEN [assessment |-> NilAssessment, err |-> "failed to query manifest APIs"]
    ELSE IF failedQuery = "CRDs"
    THEN [assessment |-> NilAssessment, err |-> "failed to query CRDs"]
    ELSE IF failedQuery = "helm releases"
    THEN [assessment |-> NilAssessment, err |-> "failed to query helm releases"]
    ELSE [assessment |->
             withOverallRisk(
                 [ClusterID |-> clusterID,
                  CurrentVersion |-> a.store.clusters[clusterID].KubeVersion,
                  TargetVersion |-> targetVersion,
                  DeprecatedManifestAPIs |->
                      checkManifestAPIs(a.apiKB,
                          rowsOfCluster(a.store.manifestApis, clusterID), targetVersion),
                  DeprecatedCRDAPIs |->
                      checkCRDs(a.apiKB,
                          rowsOfCluster(a.store.crds, clusterID), targetVersion),
                  IncompatibleCharts |->
                      checkHelmReleases(a.chartKB,
                          rowsOfCluster(a.store.helmReleases, clusterID), targetVersion),
                  OverallRisk |-> ImpactNone, TotalIssues |-> 0]),
          err |-> ""]

(***************************************************************************)
(* Inputs of the analyzer: the knowledge-base files NewAnalyzer loads and  *)
(* what the scans save in the inventory.                                   *)
(***************************************************************************)
G_empty == << >>
G_core == <<"c", "o", "r", "e">>
G_apps == <<"a", "p", "p", "s">>
V_v1beta1 == <<"v", "1", "b", "e", "t", "a", "1">>
KV_1_16 == <<"1", ".", "1", "6">>
KV_v1_25 == <<"v", "1", ".", "2", "5">>
CV_1_0_0 == <<"1", ".", "0", ".", "0">>
CV_2_0_0 == <<"2", ".", "0", ".", "0">>

\* an APIDeprecation of the file: version v1beta1 of kind K, deprecated in
\* 1.16 and removed in 1.22
deprecation(group) ==
    [Group |-> group, Version |-> V_v1beta1, Kind |-> K_K, DeprecatedIn |-> KV_1_16,
     RemovedIn |-> KV_1_22, ReplacementAPI |-> R_v2, MigrationNotes |-> "notes"]

\* the deprecations of the API knowledge-base file: none, a record of group
\* apps, or a record whose group is written core
APIKnowledgeFiles == {<< >>, << deprecation(G_apps) >>, << deprecation(G_core) >>}

\* chart x: 1.0.0 runs on 1.21, 2.0.0 on 1.21 and 1.25
chartUpgradable ==
    [ChartName |-> C_x,
     Versions |-> << [ChartVersion |-> CV_1_0_0, CompatibleWith |-> << KV_1_21 >>,
                      KnownIssues |-> << >>],
                     [ChartVersion |-> CV_2_0_0, CompatibleWith |-> << KV_1_21, KV_1_25 >>,
                      KnownIssues |-> << >>] >>]

\* chart x: 1.0.0 runs on 1.21 and 1.25 with a known issue
chartWithIssues ==
    [ChartName |-> C_x,
     Versions |-> << [ChartVersion |-> CV_1_0_0, CompatibleWith |-> << KV_1_21, KV_1_25 >>,
                      KnownIssues |-> << "issue" >>] >>]

\* the charts of the chart knowledge-base file
ChartKnowledgeFiles == {<< >>, << chartUpgradable >>, << chartWithIssues >>}

ClusterIDs == {"cluster-1", "cluster-2"}

\* the cluster the scans save; cluster-2 is never scanned
ScannedClusterID == "cluster-1"

TargetVersions == {KV_1_21, KV_v1_25}

\* the (group, version, kind) of the parsed manifests
ManifestTriples == {<< G_empty, V_v1beta1, K_K >>, << G_apps, V_v1beta1, K_K >>}

\* the CRD the scans find: one served version (SaveCRD) or its two served
\* versions (StoreCRDsToInventory)
CRDEntries == {[Name |-> "crd1", Group |-> G_apps, Version |-> V_v1beta1, Kind |-> K_K]}

ServedVersionLists == {<< V_v1beta1, V_v1 >>}

\* the releases the scans find: r1 of chart x, r2 of chart y
HelmReleaseEntries ==
    {[Name |-> "r1", Namespace |-> NS_n1, Chart |-> C_x, ChartVersion |-> CV_1_0_0],
     [Name |-> "r1", Namespace |-> NS_n1, Chart |-> C_x, ChartVersion |-> CV_2_0_0],
     [Name |-> "r2", Namespace |-> NS_n2, Chart |-> C_y, ChartVersion |-> CV_1_0_0]}

(***************************************************************************)
(* internal/inventory: the store.                                          *)
(***************************************************************************)
\* Only(ctx): the one row that matches, 0 when none or several match
onlyIndex(matches) ==
    IF Cardinality(matches) = 1 THEN CHOOSE i \in matches : TRUE ELSE 0

\* s.SaveManifestAPI(ctx, clusterID, group, version, kind, source)
saveManifestAPI(rows, clusterID, group, version, kind, source) ==
    LET existing == onlyIndex({i \in DOMAIN rows : /\ rows[i].Group = group
                                                     /\ rows[i].Version = version
                                                     /\ rows[i].Kind = kind
                                                     /\ rows[i].ClusterID = clusterID})
    IN  IF existing # 0 THEN [rows EXCEPT ![existing].Source = source]
        ELSE Append(rows, [Group |-> group, Version |-> version, Kind |-> kind,
                           Source |-> source, ClusterID |-> clusterID])

\* s.SaveCRD(ctx, clusterID, crd)
saveCRD(rows, clusterID, crd) ==
    LET versions == << crd.Version >>
        existing == onlyIndex({i \in DOMAIN rows : /\ rows[i].Name = crd.Name
                                                     /\ rows[i].ClusterID = clusterID})
    IN  IF existing # 0
        THEN [rows EXCEPT ![existing] = [@ EXCEPT !.Group = crd.Group, !.Kind = crd.Kind,
                                                  !.Versions = versions]]
        ELSE Append(rows, [Name |-> crd.Name, Group |-> crd.Group, Kind |-> crd.Kind,
                           Versions |-> versions, ClusterID |-> clusterID])

\* s.SaveHelmRelease(ctx, clusterID, release)
saveHelmRelease(rows, clusterID, release) ==
    LET existing == onlyIndex({i \in DOMAIN rows : /\ rows[i].Name = release.Name
                                                     /\ rows[i].Namespace = release.Namespace
                                                     /\ rows[i].ClusterID = clusterID})
    IN  IF existing # 0
        THEN [rows EXCEPT ![existing] = [@ EXCEPT !.Chart = release.Chart,
                                                  !.ChartVersion = release.ChartVersion]]
        ELSE Append(rows, [Name |-> release.Name, Namespace |-> release.Namespace,
                           Chart |-> release.Chart, ChartVersion |-> release.ChartVersion,
                           ClusterID |-> clusterID])

(***************************************************************************)
(* The planner, called by one caller at a time.                            *)
(***************************************************************************)
plannerCallVars == << planInput, planIter, plan, planErr, carried >>

callerVars == << pc, callArg, callPlan, callErr >>

storeVars == << clusters, manifestApis, crds, helmReleases >>

queryVars == << query, answer >>

analyzerVars ==
    << apiKB, chartKB, storeVars, impactCall, impactAssessment, impactErr, queryVars >>

plannerVars == << graph, edges, plannerCallVars, callerVars >>

vars == << plannerVars, analyzerVars >>

\* the goroutines that call GeneratePlan on the one Planner
Callers == {1, 2}

InitPlanner ==
    /\ graph = NewPlanner.graph
    /\ edges = NewPlanner.edges
    /\ planInput = NilAssessment
    /\ planIter = << >>
    /\ plan = NilPlan
    /\ planErr = ""
    /\ carried = FALSE

\* no call made
NoCall == [nil |-> TRUE]

InitCallers ==
    /\ pc = [c \in Callers |-> "idle"]
    /\ callArg = [c \in Callers |-> [assessment |-> NilAssessment, iter |-> << >>]]
    /\ callPlan = [c \in Callers |-> NilPlan]
    /\ callErr = [c \in Callers |-> ""]

\* the inventory store as NewStore leaves it, no assessment computed
InitStore ==
    /\ clusters = EmptyMap
    /\ manifestApis = << >>
    /\ crds = << >>
    /\ helmReleases = << >>
    /\ impactCall = NoCall
    /\ impactAssessment = NilAssessment
    /\ impactErr = ""

\* no knowledge-base or version function called yet
InitQueries ==
    /\ query = NoCall
    /\ answer = NoCall

\* the planner beside an analyzer that loaded two empty knowledge-base files
Init ==
    /\ InitPlanner
    /\ InitCallers
    /\ apiKB = NewAPIKnowledgeBase
    /\ chartKB = NewChartKnowledgeBase
    /\ InitStore
    /\ InitQueries

\* p.GeneratePlan(assessment)
GeneratePlan(assessment, iter) ==
    \E r \in {runGeneratePlan([graph |-> graph, edges |-> edges], assessment, iter)} :
        /\ graph' = r.p.graph
        /\ edges' = r.p.edges
        /\ planInput' = assessment
        /\ planIter' = iter
        /\ plan' = r.plan
        /\ planErr' = r.err
        /\ carried' = (\E id \in DOMAIN graph : id \notin DOMAIN r.p.graph)
        /\ UNCHANGED << callerVars, analyzerVars >>

Next ==
    \E assessment \in PlanAssessments :
        \E iter \in IterationOrders(DOMAIN apiMapOf(assessment)) :
            GeneratePlan(assessment, iter)

Spec == Init /\ [][Next]_vars

(***************************************************************************)
(* The planner, called by two goroutines at once.  GeneratePlan takes no   *)
(* lock; a caller runs it block by block (the reset, then each numbered    *)
(* step of the function, then the sort), and the blocks of the two callers *)
(* interleave.  Both callers read p.graph and p.edges afresh in every      *)
(* addNode, addEdge and topologicalSort.  The code interleaves statement   *)
(* by statement; every behaviour of the blocks is a behaviour of the code. *)
(***************************************************************************)
\* the assessments the two callers pass: none or one manifest-API impact,
\* none or one chart impact
ConcAPILists == {<< >>, << apiImpact(G_a_dot_b, V_v1, K_K, ImpactCritical, "manifest") >>}

ConcChartLists == {<< >>, << chartImpact(C_x, NS_n1) >>}

ConcAssessments ==
    {a \in PlanAssessments :
        /\ a.DeprecatedManifestAPIs \in ConcAPILists
        /\ a.IncompatibleCharts \in ConcChartLists
        /\ a.DeprecatedCRDAPIs = << >>}

shared == [graph |-> graph, edges |-> edges]

Advance(c, p, next) ==
    /\ graph' = p.graph
    /\ edges' = p.edges
    /\ pc' = [pc EXCEPT ![c] = next]

\* the call and its first two statements
CallReset(c, assessment, iter) ==
    /\ pc[c] \in {"idle", "done"}
    /\ callArg' = [callArg EXCEPT ![c] = [assessment |-> assessment, iter |-> iter]]
    /\ callPlan' = [callPlan EXCEPT ![c] = NilPlan]
    /\ callErr' = [callErr EXCEPT ![c] = ""]
    /\ Advance(c, resetGraph(shared), "precheck")
    /\ UNCHANGED << plannerCallVars, analyzerVars >>

CallPrecheckBackup(c) ==
    /\ pc[c] = "precheck"
    /\ \E p \in {addPrecheckAndBackup(shared)} : Advance(c, p, "api")
    /\ UNCHANGED << plannerCallVars, analyzerVars, callArg, callPlan, callErr >>

CallAPIMigrations(c) ==
    /\ pc[c] = "api"
    /\ \E p \in {addAPIMigrations(shared,
                    createAPIMigrationSteps(callArg[c].assessment, callArg[c].iter))} :
          Advance(c, p, "chart")
    /\ UNCHANGED << plannerCallVars, analyzerVars, callArg, callPlan, callErr >>

CallChartUpgrades(c) ==
    /\ pc[c] = "chart"
    /\ \E p \in {addChartUpgrades(shared,
                    createAPIMigrationSteps(callArg[c].assessment, callArg[c].iter),
                    createChartUpgradeSteps(callArg[c].assessment))} :
          Advance(c, p, "cluster")
    /\ UNCHANGED << plannerCallVars, analyzerVars, callArg, callPlan, callErr >>

CallClusterUpgrade(c) ==
    /\ pc[c] = "cluster"
    /\ \E p \in {addClusterUpgrade(shared, callArg[c].assessment,
                    createAPIMigrationSteps(callArg[c].assessment, callArg[c].iter),
                    createChartUpgradeSteps(callArg[c].assessment))} :
          Advance(c, p, "validation")
    /\ UNCHANGED << plannerCallVars, analyzerVars, callArg, callPlan, callErr >>

CallValidation(c) ==
    /\ pc[c] = "validation"
    /\ \E p \in {addValidation(shared)} : Advance(c, p, "sort")
    /\ UNCHANGED << plannerCallVars, analyzerVars, callArg, callPlan, callErr >>

CallSortAndReturn(c) ==
    /\ pc[c] = "sort"
    /\ \E r \in {sortAndBuild(shared, callArg[c].assessment)} :
          /\ Advance(c, r.p, "done")
          /\ callPlan' = [callPlan EXCEPT ![c] = r.plan]
          /\ callErr' = [callErr EXCEPT ![c] = r.err]
    /\ UNCHANGED << plannerCallVars, analyzerVars, callArg >>

InCall(c) == pc[c] \notin {"idle", "done"}

\* two goroutines inside GeneratePlan write the same maps without
\* synchronisation: the Go runtime may detect it and abort the process
\* ("fatal error: concurrent map writes"), and neither call returns a plan
ConcurrentMapWrites ==
    /\ \A c \in Callers : InCall(c)
    /\ pc' = [c \in Callers |-> "done"]
    /\ callPlan' = [c \in Callers |-> NilPlan]
    /\ callErr' = [c \in Callers |-> "fatal error: concurrent map writes"]
    /\ UNCHANGED << graph, edges, plannerCallVars, analyzerVars, callArg >>

NextConc ==
    \/ \E c \in Callers :
          \E assessment \in ConcAssessments :
              \E iter \in IterationOrders(DOMAIN apiMapOf(assessment)) :
                  CallReset(c, assessment, iter)
    \/ \E c \in Callers : CallPrecheckBackup(c)
    \/ \E c \in Callers : CallAPIMigrations(c)
    \/ \E c \in Callers : CallChartUpgrades(c)
    \/ \E c \in Callers : CallClusterUpgrade(c)
    \/ \E c \in Callers : CallValidation(c)
    \/ \E c \in Callers : CallSortAndReturn(c)
    \/ ConcurrentMapWrites

SpecConc == Init /\ [][NextConc]_vars

(***************************************************************************)
(* The analyzer over the inventory store: the scans save what they find,   *)
(* and ComputeUpgradeImpact assesses the saved inventory.                  *)
(***************************************************************************)
\* NewAnalyzer(apiKnowledgeBasePath, chartKnowledgeBasePath, store)
NewAnalyzer ==
    /\ \E deprecations \in APIKnowledgeFiles :
          apiKB = APILoadFromFile(NewAPIKnowledgeBase, deprecations)
    /\ \E charts \in ChartKnowledgeFiles :
          chartKB = ChartLoadFromFile(NewChartKnowledgeBase, charts)
    /\ InitStore

\* the analyzer as ComputeUpgradeImpact finds it
analyzer ==
    [apiKB |-> apiKB, chartKB |-> chartKB,
     store |-> [clusters |-> clusters, manifestApis |-> manifestApis, crds |-> crds,
                helmReleases |-> helmReleases]]

\* a write to the inventory: the assessment returned before it is no longer
\* the assessment of the inventory
staleAssessment ==
    /\ impactCall' = NoCall
    /\ impactAssessment' = NilAssessment
    /\ impactErr' = ""

\* s.SaveCluster(ctx, id, name, kubeVersion)
SaveCluster(id, kubeVersion) ==
    /\ clusters' = MapPut(clusters, id, [ID |-> id, KubeVersion |-> kubeVersion])
    /\ staleAssessment
    /\ UNCHANGED << plannerVars, queryVars, apiKB, chartKB, manifestApis, crds, helmReleases >>

\* s.SaveManifestAPI(ctx, clusterID, group, version, kind, source); without
\* the cluster row the create fails and nothing is saved
SaveManifestAPI(clusterID, group, version, kind, source) ==
    /\ clusterID \in DOMAIN clusters
    /\ manifestApis' = saveManifestAPI(manifestApis, clusterID, group, version, kind, source)
    /\ staleAssessment
    /\ UNCHANGED << plannerVars, queryVars, apiKB, chartKB, clusters, crds, helmReleases >>

\* s.SaveCRD(ctx, clusterID, crd)
SaveCRD(clusterID, crd) ==
    /\ clusterID \in DOMAIN clusters
    /\ \E rows \in {saveCRD(crds, clusterID, crd)} :
          /\ Len(rows) <= MaxCRDs
          /\ crds' = rows
    /\ staleAssessment
    /\ UNCHANGED << plannerVars, queryVars, apiKB, chartKB, clusters, manifestApis, helmReleases >>

\* StoreCRDsToInventory, one CRD of the list: a row with every served version
\* is created
StoreCRD(clusterID, crd, servedVersions) ==
    /\ clusterID \in DOMAIN clusters
    /\ Len(crds) < MaxCRDs
    /\ crds' = Append(crds, [Name |-> crd.Name, Group |-> crd.Group, Kind |-> crd.Kind,
                             Versions |-> servedVersions, ClusterID |-> clusterID])
    /\ staleAssessment
    /\ UNCHANGED << plannerVars, queryVars, apiKB, chartKB, clusters, manifestApis, helmReleases >>

\* s.SaveHelmRelease(ctx, clusterID, release)
SaveHelmRelease(clusterID, release) ==
    /\ clusterID \in DOMAIN clusters
    /\ helmReleases' = saveHelmRelease(helmReleases, clusterID, release)
    /\ staleAssessment
    /\ UNCHANGED << plannerVars, queryVars, apiKB, chartKB, clusters, manifestApis, crds >>

\* s.ClearClusterData(ctx, clusterID)
ClearClusterData(clusterID) ==
    /\ helmReleases' = SelectSeq(helmReleases, LAMBDA r : r.ClusterID # clusterID)
    /\ crds' = SelectSeq(crds, LAMBDA r : r.ClusterID # clusterID)
    /\ manifestApis' = SelectSeq(manifestApis, LAMBDA r : r.ClusterID # clusterID)
    /\ staleAssessment
    /\ UNCHANGED << plannerVars, queryVars, apiKB, chartKB, clusters >>

\* a.ComputeUpgradeImpact(ctx, clusterID, targetVersion)
ComputeUpgradeImpact(clusterID, targetVersion, failedQuery) ==
    /\ \E r \in {runComputeUpgradeImpact(analyzer, clusterID, targetVersion, failedQuery)} :
          /\ impactCall' = [clusterID |-> clusterID, targetVersion |-> targetVersion,
                             failedQuery |-> failedQuery]
          /\ impactAssessment' = r.assessment
          /\ impactErr' = r.err
    /\ UNCHANGED << plannerVars, queryVars, apiKB, chartKB, storeVars >>

NextAnalyzer ==
    \/ SaveCluster(ScannedClusterID, KV_1_21)
    \/ \E t \in ManifestTriples :
          SaveManifestAPI(ScannedClusterID, t[1], t[2], t[3], "local")
    \/ \E crd \in CRDEntries : SaveCRD(ScannedClusterID, crd)
    \/ \E crd \in CRDEntries : \E servedVersions \in ServedVersionLists :
          StoreCRD(ScannedClusterID, crd, servedVersions)
    \/ \E release \in HelmReleaseEntries : SaveHelmRelease(ScannedClusterID, release)
    \/ ClearClusterData(ScannedClusterID)
    \/ \E clusterID \in ClusterIDs : \E targetVersion \in TargetVersions :
          \E failedQuery \in QueryFailures :
              ComputeUpgradeImpact(clusterID, targetVersion, failedQuery)

\* the analyzer NewAnalyzer built, beside a planner no call has reached
InitAnalyzer ==
    /\ InitPlanner
    /\ InitCallers
    /\ NewAnalyzer
    /\ InitQueries

SpecAnalyzer == InitAnalyzer /\ [][NextAnalyzer]_vars

(***************************************************************************)
(* The version comparator, called on version strings.                      *)
(***************************************************************************)
\* the characters of the version strings: the prefix, the separator, two digits
VersionChars == {"v", ".", "1", "2"}

VersionStrings == SeqsUpTo(VersionChars, MaxVersionLen)

\* the two version strings a caller passes
InitVersion ==
    /\ InitPlanner
    /\ InitCallers
    /\ apiKB = NewAPIKnowledgeBase
    /\ chartKB = NewChartKnowledgeBase
    /\ InitStore
    /\ \E version \in VersionStrings : \E minVersion \in VersionStrings :
          query = [fn |-> "isVersionGreaterOrEqual", version |-> version,
                   minVersion |-> minVersion, returned |-> FALSE]
    /\ answer = NoCall

\* isVersionGreaterOrEqual(version, minVersion)
QueryIsVersionGreaterOrEqual ==
    /\ ~query.returned
    /\ query' = [query EXCEPT !.returned = TRUE]
    /\ answer' = isVersionGreaterOrEqual(query.version, query.minVersion)
    /\ UNCHANGED << plannerVars, apiKB, chartKB, storeVars, impactCall,
                    impactAssessment, impactErr >>

NextVersion == QueryIsVersionGreaterOrEqual

SpecVersion == InitVersion /\ [][NextVersion]_vars

(***************************************************************************)
(* The API knowledge base, loaded from a file and asked about APIs.        *)
(***************************************************************************)
KV_1_15 == <<"1", ".", "1", "5">>
KV_1_22_3 == <<"1", ".", "2", "2", ".", "3">>
KV_2 == <<"2">>

\* an APIDeprecation of the file: version v1beta1 of kind K of the group,
\* deprecated in 1.16
deprecationRemovedIn(group, removedIn) ==
    [Group |-> group, Version |-> V_v1beta1, Kind |-> K_K, DeprecatedIn |-> KV_1_16,
     RemovedIn |-> removedIn, ReplacementAPI |-> R_v2, MigrationNotes |-> "notes"]

QueryGroups == {G_empty, G_core, G_apps}

\* removedIn of a record: 1.22, 1.25, left empty, or the one component 2
QueryRemovedIn == {KV_1_22, KV_1_25, << >>, KV_2}

\* the records a file may hold: one per group and removal version
QueryRecords ==
    {deprecationRemovedIn(group, removedIn) :
        group \in QueryGroups, removedIn \in QueryRemovedIn}

\* the deprecations of the file LoadFromFile reads
QueryAPIFiles == SeqsUpTo(QueryRecords, MaxKBRecords)

\* the target versions asked about: below the deprecation, between
\* deprecation and removal, at and after a removal, with a patch component,
\* with a v prefix, with a major component only
QueryTargets == {KV_1_15, KV_1_21, KV_1_22, KV_1_22_3, KV_v1_25, KV_2}

\* kb.LoadFromFile(path) on a new API knowledge base
InitAPIKB ==
    /\ InitPlanner
    /\ InitCallers
    /\ \E deprecations \in QueryAPIFiles :
          apiKB = APILoadFromFile(NewAPIKnowledgeBase, deprecations)
    /\ chartKB = NewChartKnowledgeBase
    /\ InitStore
    /\ InitQueries

\* kb.CheckDeprecation(group, version, kind)
QueryCheckDeprecation(group, version, kind) ==
    /\ query' = [fn |-> "CheckDeprecation", group |-> group, version |-> version,
                 kind |-> kind, returned |-> TRUE]
    /\ answer' = CheckDeprecation(apiKB, group, version, kind)
    /\ UNCHANGED << plannerVars, apiKB, chartKB, storeVars, impactCall,
                    impactAssessment, impactErr >>

\* kb.IsAPIRemoved(group, version, kind, targetVersion)
QueryIsAPIRemoved(group, version, kind, targetVersion) ==
    /\ query' = [fn |-> "IsAPIRemoved", group |-> group, version |-> version,
                 kind |-> kind, targetVersion |-> targetVersion,
                 returned |-> TRUE]
    /\ answer' = IsAPIRemoved(apiKB, group, version, kind, targetVersion)
    /\ UNCHANGED << plannerVars, apiKB, chartKB, storeVars, impactCall,
                    impactAssessment, impactErr >>

\* kb.IsAPIDeprecated(group, version, kind, targetVersion)
QueryIsAPIDeprecated(group, version, kind, targetVersion) ==
    /\ query' = [fn |-> "IsAPIDeprecated", group |-> group, version |-> version,
                 kind |-> kind, targetVersion |-> targetVersion,
                 returned |-> TRUE]
    /\ answer' = IsAPIDeprecated(apiKB, group, version, kind, targetVersion)
    /\ UNCHANGED << plannerVars, apiKB, chartKB, storeVars, impactCall,
                    impactAssessment, impactErr >>

NextAPIKB ==
    \/ \E group \in QueryGroups : QueryCheckDeprecation(group, V_v1beta1, K_K)
    \/ \E group \in QueryGroups : \E targetVersion \in QueryTargets :
          QueryIsAPIRemoved(group, V_v1beta1, K_K, targetVersion)
    \/ \E group \in QueryGroups : \E targetVersion \in QueryTargets :
          QueryIsAPIDeprecated(group, V_v1beta1, K_K, targetVersion)

SpecAPIKB == InitAPIKB /\ [][NextAPIKB]_vars

(***************************************************************************)
(* The chart knowledge base alone: a file is loaded, then one lookup, or   *)
(* the analyzer's chart check, runs once.  The file holds no chart or the  *)
(* chart x, with one entry per chart release: no two entries carry the     *)
(* same ChartVersion.                                                      *)
(***************************************************************************)
CV_9_0_0 == <<"9", ".", "0", ".", "0">>
CV_10_0_0 == <<"1", "0", ".", "0", ".", "0">>
CV_10_0 == <<"1", "0", ".", "0">>
CV_10_1 == <<"1", "0", ".", "1">>

\* the chart versions of the entries and of the installed releases
QueryChartVersions == {CV_9_0_0, CV_10_0_0, CV_10_0, CV_10_1}

\* compatibleWith of an entry: 1.21 only, or 1.21 and 1.25, written v1.25
QueryCompatibleSets == {<< KV_1_21 >>, << KV_1_21, KV_v1_25 >>}

\* knownIssues of an entry
QueryIssueLists == {<< >>, << "issue" >>}

\* the ChartCompatibility entries
QueryChartEntries ==
    [ChartVersion : QueryChartVersions, CompatibleWith : QueryCompatibleSets,
     KnownIssues : QueryIssueLists]

\* the Versions of a chart: at most MaxChartEntries entries, one per release
QueryChartEntryLists ==
    {versions \in SeqsUpTo(QueryChartEntries, MaxChartEntries) :
        \A i \in DOMAIN versions : \A j \in DOMAIN versions :
            i # j => versions[i].ChartVersion # versions[j].ChartVersion}

\* the charts of the file
QueryChartFiles ==
    {<< >>} \cup {<< [ChartName |-> C_x, Versions |-> versions] >> :
                     versions \in QueryChartEntryLists}

\* the chart asked about: x, or y that no file holds
QueryChartNames == {C_x, C_y}

\* the Kubernetes version asked about
QueryKubeVersions == {KV_1_16, KV_1_25, KV_v1_25}

\* the arguments of the one call
QueryChartCalls ==
    [fn : {"FindCompatibleChartVersion", "CheckCompatibility", "checkHelmReleases"},
     chartName : QueryChartNames, chartVersion : QueryChartVersions,
     kubeVersion : QueryKubeVersions, returned : {FALSE}]

InitChartKB ==
    /\ InitPlanner
    /\ InitCallers
    /\ apiKB = NewAPIKnowledgeBase
    /\ \E charts \in QueryChartFiles :
          chartKB = ChartLoadFromFile(NewChartKnowledgeBase, charts)
    /\ InitStore
    /\ query \in QueryChartCalls
    /\ answer = NoCall

\* kb.FindCompatibleChartVersion(chartName, currentVersion, targetK8sVersion)
QueryFindCompatibleChartVersion ==
    /\ query.fn = "FindCompatibleChartVersion"
    /\ ~query.returned
    /\ query' = [query EXCEPT !.returned = TRUE]
    /\ answer' = FindCompatibleChartVersion(chartKB, query.chartName,
                                             query.chartVersion, query.kubeVersion)
    /\ UNCHANGED << plannerVars, apiKB, chartKB, storeVars, impactCall,
                    impactAssessment, impactErr >>

\* kb.CheckCompatibility(chartName, chartVersion, kubeVersion)
QueryCheckCompatibility ==
    /\ query.fn = "CheckCompatibility"
    /\ ~query.returned
    /\ query' = [query EXCEPT !.returned = TRUE]
    /\ answer' = CheckCompatibility(chartKB, query.chartName, query.chartVersion,
                                     query.kubeVersion)
    /\ UNCHANGED << plannerVars, apiKB, chartKB, storeVars, impactCall,
                    impactAssessment, impactErr >>

\* the release of the chart asked about, as the inventory holds it
queriedRelease ==
    [Name |-> "r1", Namespace |-> NS_n1, Chart |-> query.chartName,
     ChartVersion |-> query.chartVersion, ClusterID |-> ScannedClusterID]

\* ComputeUpgradeImpact, "Check Helm Charts", on that one release
QueryCheckHelmReleases ==
    /\ query.fn = "checkHelmReleases"
    /\ ~query.returned
    /\ query' = [query EXCEPT !.returned = TRUE]
    /\ answer' = checkHelmReleases(chartKB, << queriedRelease >>, query.kubeVersion)
    /\ UNCHANGED << plannerVars, apiKB, chartKB, storeVars, impactCall,
                    impactAssessment, impactErr >>

NextChartKB ==
    \/ QueryFindCompatibleChartVersion
    \/ QueryCheckCompatibility
    \/ QueryCheckHelmReleases

SpecChartKB == InitChartKB /\ [][NextChartKB]_vars

(***************************************************************************)
(* The planner's other methods.  A caller either asks for the timeline of  *)
(* a number of steps, or validates a plan it holds, or generates a plan    *)
(* and validates what GeneratePlan returned.                               *)
(***************************************************************************)
\* the step ids of the plans handed to ValidatePlan, and an id no step has
QueryStepIDs == {ID_precheck, ID_backup}

QueryDependencyIDs == QueryStepIDs \cup {ID_validation}

\* the steps of those plans: ValidatePlan reads ID and Dependencies
QuerySteps == [ID : QueryStepIDs, Dependencies : SeqsUpTo(QueryDependencyIDs, 1)]

\* the plans handed to ValidatePlan
QueryPlans == {[Steps |-> steps] : steps \in SeqsUpTo(QuerySteps, MaxQuerySteps)}

\* the arguments of the call
QueryPlannerCalls ==
    {[fn |-> "estimateTimeline", stepCount |-> n, returned |-> FALSE] :
        n \in 0..MaxStepCount}
    \cup {[fn |-> "ValidatePlan", plan |-> p, returned |-> FALSE] : p \in QueryPlans}
    \cup {[fn |-> "GeneratePlan", returned |-> FALSE]}

InitPlannerCalls ==
    /\ InitPlanner
    /\ InitCallers
    /\ apiKB = NewAPIKnowledgeBase
    /\ chartKB = NewChartKnowledgeBase
    /\ InitStore
    /\ query \in QueryPlannerCalls
    /\ answer = NoCall

\* p.estimateTimeline(stepCount)
QueryEstimateTimeline ==
    /\ query.fn = "estimateTimeline"
    /\ ~query.returned
    /\ query' = [query EXCEPT !.returned = TRUE]
    /\ answer' = estimateTimeline(query.stepCount)
    /\ UNCHANGED << plannerVars, apiKB, chartKB, storeVars, impactCall,
                    impactAssessment, impactErr >>

\* p.ValidatePlan(plan) on a plan the caller holds
QueryValidatePlan ==
    /\ query.fn = "ValidatePlan"
    /\ ~query.returned
    /\ query' = [query EXCEPT !.returned = TRUE]
    /\ answer' = ValidatePlan(query.plan)
    /\ UNCHANGED << plannerVars, apiKB, chartKB, storeVars, impactCall,
                    impactAssessment, impactErr >>

\* the caller's one p.GeneratePlan(assessment)
GeneratePlanOnce ==
    /\ query.fn = "GeneratePlan"
    /\ planInput = NilAssessment
    /\ Next

\* p.ValidatePlan(plan) on the plan GeneratePlan returned
ValidateReturnedPlan ==
    /\ query.fn = "GeneratePlan"
    /\ plan # NilPlan
    /\ query' = [fn |-> "ValidatePlan", plan |-> plan, returned |-> TRUE]
    /\ answer' = ValidatePlan(plan)
    /\ UNCHANGED << plannerVars, apiKB, chartKB, storeVars, impactCall,
                    impactAssessment, impactErr >>

NextPlannerCalls ==
    \/ QueryEstimateTimeline
    \/ QueryValidatePlan
    \/ GeneratePlanOnce
    \/ ValidateReturnedPlan

SpecPlannerCalls == InitPlannerCalls /\ [][NextPlannerCalls]_vars

(***************************************************************************)
(* Properties of the plan.                                                 *)
(***************************************************************************)
PlanReturned == plan # NilPlan

PositionsOf(id) == {i \in 1..Len(plan.Steps) : plan.Steps[i].ID = id}

ImpactEntries(assessment) ==
    Len(assessment.DeprecatedManifestAPIs) + Len(assessment.DeprecatedCRDAPIs)
        + Len(assessment.IncompatibleCharts)

\* C1: in the returned plan every step is positioned after every step whose
\* id appears in its Dependencies list; in particular backup comes before
\* cluster-upgrade.
C1_StepsFollowTheirDependencies ==
    PlanReturned =>
        \A i \in 1..Len(plan.Steps) :
            \A k \in 1..Len(plan.Steps[i].Dependencies) :
                \E j \in 1..(i - 1) : plan.Steps[j].ID = plan.Steps[i].Dependencies[k]

\* C2: for an assessment with at least one impact entry (manifest-API, CRD or
\* chart) the returned steps have precheck at position 0, with Order 0, and
\* validation at the last position.
C2_PrecheckFirstValidationLast ==
    (PlanReturned /\ ImpactEntries(planInput) >= 1) =>
        /\ plan.Steps[1].ID = ID_precheck
        /\ plan.Steps[1].Order = 0
        /\ plan.Steps[Len(plan.Steps)].ID = ID_validation

DistinctManifestTriples(assessment) ==
    {<< assessment.DeprecatedManifestAPIs[i].Group,
        assessment.DeprecatedManifestAPIs[i].Version,
        assessment.DeprecatedManifestAPIs[i].Kind >> :
        i \in 1..Len(assessment.DeprecatedManifestAPIs)}

\* C3: the plan has exactly 4 + N + M steps, N the number of distinct
\* (group, version, kind) triples among the deprecated manifest-API impacts
\* and M the number of entries of the incompatible-chart list.
C3_StepCount ==
    PlanReturned =>
        Len(plan.Steps) = 4 + Cardinality(DistinctManifestTriples(planInput))
                            + Len(planInput.IncompatibleCharts)

\* C4: two runs of GeneratePlan on an identical assessment return identical
\* OrderedUpgradeSteps, whatever order the range over apiMap visits the keys in.
C4_SameAssessmentSameLines ==
    [][(PlanReturned /\ planInput' = planInput /\ plan' # NilPlan)
          => plan'.OrderedUpgradeSteps = plan.OrderedUpgradeSteps]_vars

\* C5: every migrate-api step precedes every upgrade-chart step, every
\* migrate-api and upgrade-chart step precedes cluster-upgrade, and
\* cluster-upgrade precedes validation.
C5_RemediationBeforeUpgrade ==
    PlanReturned =>
        \A i, j \in 1..Len(plan.Steps) :
            /\ (plan.Steps[i].Type = StepAPIMigration /\ plan.Steps[j].Type = StepChartUpgrade)
                  => i < j
            /\ (plan.Steps[i].Type \in {StepAPIMigration, StepChartUpgrade}
                  /\ plan.Steps[j].ID = ID_cluster_upgrade) => i < j
            /\ (plan.Steps[i].ID = ID_cluster_upgrade /\ plan.Steps[j].ID = ID_validation)
                  => i < j

\* a plan with a migration step and two different chart steps
C5_Witness ==
    /\ PlanReturned
    /\ \E i, j, k \in 1..Len(plan.Steps) :
          /\ plan.Steps[i].Type = StepAPIMigration
          /\ plan.Steps[j].Type = StepChartUpgrade
          /\ plan.Steps[k].Type = StepChartUpgrade
          /\ j # k
    /\ PositionsOf(ID_cluster_upgrade) # {}
    /\ PositionsOf(ID_validation) # {}

\* C6: when two GeneratePlan calls on the same Planner are interleaved, each
\* call returns the plan it would return when run alone, and neither fails.
C6_InterleavedCallsAsAlone ==
    \A c \in Callers :
        pc[c] = "done" =>
            \E alone \in {runGeneratePlan(NewPlanner, callArg[c].assessment, callArg[c].iter)} :
                /\ callErr[c] = ""
                /\ callPlan[c] = alone.plan

\* C7: the plan a call returns, and the graph and edges it leaves in the
\* planner, are those a freshly constructed Planner produces for the same
\* assessment: nothing of an earlier call is in them.
C7_NothingCarriedBetweenCalls ==
    (planInput # NilAssessment) =>
        \E fresh \in {runGeneratePlan(NewPlanner, planInput, planIter)} :
            /\ plan = fresh.plan
            /\ planErr = fresh.err
            /\ graph = fresh.p.graph
            /\ edges = fresh.p.edges

\* a call that started on a planner still holding a step of an earlier
\* assessment
C7_Witness == PlanReturned /\ carried

(***************************************************************************)
(* Properties of the assessment.                                           *)
(***************************************************************************)
ImpactReturned == impactAssessment # NilAssessment

\* the rows the returned assessment was computed from
assessedRows(rows) == rowsOfCluster(rows, impactAssessment.ClusterID)

Occurrences(s, x) == Cardinality({i \in DOMAIN s : s[i] = x})

\* s and t hold the same elements the same number of times
SameEntries(s, t) ==
    /\ Len(s) = Len(t)
    /\ \A i \in DOMAIN s : Occurrences(s, s[i]) = Occurrences(t, s[i])

\* C8: the OverallRisk of a returned assessment is none iff the three impact
\* lists are empty, critical iff there is at least one manifest-origin impact
\* (whatever else there is), and high iff there is no manifest-origin impact
\* and at least one CRD-origin or chart impact.
C8_OverallRiskCascade ==
    ImpactReturned =>
        LET a == impactAssessment
            manifest == Len(a.DeprecatedManifestAPIs)
            crd == Len(a.DeprecatedCRDAPIs)
            chart == Len(a.IncompatibleCharts)
        IN  /\ a.OverallRisk = ImpactNone <=> manifest + crd + chart = 0
            /\ a.OverallRisk = ImpactCritical <=> manifest >= 1
            /\ a.OverallRisk = ImpactHigh <=> (manifest = 0 /\ (crd >= 1 \/ chart >= 1))

\* an assessment with impacts of all three origins, whose risk is critical
C8_Witness ==
    /\ ImpactReturned
    /\ Len(impactAssessment.DeprecatedManifestAPIs) >= 1
    /\ Len(impactAssessment.DeprecatedCRDAPIs) >= 1
    /\ Len(impactAssessment.IncompatibleCharts) >= 1
    /\ impactAssessment.OverallRisk = ImpactCritical

\* what C9 says of the entries of an API list
apiEntryShapes(entries) ==
    [i \in DOMAIN entries |->
        [Group |-> entries[i].Group, Version |-> entries[i].Version,
         Kind |-> entries[i].Kind, ImpactLevel |-> entries[i].ImpactLevel,
         Source |-> entries[i].Source]]

\* what C9 says of the entries of the chart list
chartEntryShapes(entries) ==
    [i \in DOMAIN entries |->
        [ChartName |-> entries[i].ChartName, Namespace |-> entries[i].Namespace,
         CurrentVersion |-> entries[i].CurrentVersion,
         ImpactLevel |-> entries[i].ImpactLevel]]

\* one entry of the level and source per API of the list
expectedAPIShapes(apis, level, source) ==
    [i \in DOMAIN apis |->
        [Group |-> apis[i].Group, Version |-> apis[i].Version, Kind |-> apis[i].Kind,
         ImpactLevel |-> level, Source |-> source]]

\* one entry of level high per release of the list
expectedChartShapes(releases) ==
    [i \in DOMAIN releases |->
        [ChartName |-> releases[i].Chart, Namespace |-> releases[i].Namespace,
         CurrentVersion |-> releases[i].ChartVersion, ImpactLevel |-> ImpactHigh]]

\* the (CRD, served version) pairs of the rows, as API triples
RECURSIVE servedTriples(_)
servedTriples(crdRows) ==
    IF crdRows = << >> THEN << >>
    ELSE [i \in DOMAIN Head(crdRows).Versions |->
             [Group |-> Head(crdRows).Group, Version |-> Head(crdRows).Versions[i],
              Kind |-> Head(crdRows).Kind]]
         \o servedTriples(Tail(crdRows))

removedAtTarget(api) ==
    IsAPIRemoved(apiKB, api.Group, api.Version, api.Kind, impactAssessment.TargetVersion)

incompatibleAtTarget(release) ==
    ~FindCompatibleChartVersion(chartKB, release.Chart, release.ChartVersion,
                                impactAssessment.TargetVersion).IsCompatible

\* C9: a returned assessment holds one entry of level critical and source
\* "manifest" per manifest API that IsAPIRemoved at the target, one entry of
\* level high and source "crd" per served version of a CRD that IsAPIRemoved,
\* one entry of level high per Helm release whose recommendation is not
\* compatible, and no other entry.
C9_EntriesExactlyForFailedChecks ==
    ImpactReturned =>
        /\ SameEntries(
               apiEntryShapes(impactAssessment.DeprecatedManifestAPIs),
               expectedAPIShapes(SelectSeq(assessedRows(manifestApis), removedAtTarget),
                                 ImpactCritical, "manifest"))
        /\ SameEntries(
               apiEntryShapes(impactAssessment.DeprecatedCRDAPIs),
               expectedAPIShapes(
                   SelectSeq(servedTriples(assessedRows(crds)), removedAtTarget),
                   ImpactHigh, "crd"))
        /\ SameEntries(
               chartEntryShapes(impactAssessment.IncompatibleCharts),
               expectedChartShapes(
                   SelectSeq(assessedRows(helmReleases), incompatibleAtTarget)))

\* an assessment of an inventory in which, of each kind, one item fails its
\* check and one passes
C9_Witness ==
    /\ ImpactReturned
    /\ Len(impactAssessment.DeprecatedManifestAPIs) >= 1
    /\ Len(impactAssessment.DeprecatedManifestAPIs) < Len(assessedRows(manifestApis))
    /\ Len(impactAssessment.DeprecatedCRDAPIs) >= 1
    /\ Len(impactAssessment.DeprecatedCRDAPIs) < Len(servedTriples(assessedRows(crds)))
    /\ Len(impactAssessment.IncompatibleCharts) >= 1
    /\ Len(impactAssessment.IncompatibleCharts) < Len(assessedRows(helmReleases))

\* a record of exactly this group, version and kind was loaded
hasAPIRecord(kb, group, version, kind) ==
    \E i \in DOMAIN kb.apiList :
        /\ kb.apiList[i].Group = group
        /\ kb.apiList[i].Version = version
        /\ kb.apiList[i].Kind = kind

unknownAPI(api) == ~hasAPIRecord(apiKB, api.Group, api.Version, api.Kind)

unknownChart(release) == release.Chart \notin DOMAIN chartKB.charts

\* C10: for an observed manifest API or CRD served version of which the API
\* knowledge base loaded no record, IsAPIRemoved and IsAPIDeprecated are false
\* at every target; for a release of a chart the chart knowledge base has no
\* record of, FindCompatibleChartVersion is compatible; and the assessment of
\* an inventory of such items only has OverallRisk none.
C10_NoRecordNoImpact ==
    /\ \A api \in {manifestApis[i] : i \in DOMAIN manifestApis}
                  \cup {servedTriples(crds)[i] : i \in DOMAIN servedTriples(crds)} :
          unknownAPI(api) =>
              \A targetVersion \in TargetVersions :
                  /\ ~IsAPIRemoved(apiKB, api.Group, api.Version, api.Kind, targetVersion)
                  /\ ~IsAPIDeprecated(apiKB, api.Group, api.Version, api.Kind, targetVersion)
    /\ \A i \in DOMAIN helmReleases :
          unknownChart(helmReleases[i]) =>
              \A targetVersion \in TargetVersions :
                  FindCompatibleChartVersion(chartKB, helmReleases[i].Chart,
                      helmReleases[i].ChartVersion, targetVersion).IsCompatible
    /\ ImpactReturned =>
          ((/\ \A i \in DOMAIN assessedRows(manifestApis) :
                  unknownAPI(assessedRows(manifestApis)[i])
            /\ \A i \in DOMAIN servedTriples(assessedRows(crds)) :
                  unknownAPI(servedTriples(assessedRows(crds))[i])
            /\ \A i \in DOMAIN assessedRows(helmReleases) :
                  unknownChart(assessedRows(helmReleases)[i]))
           => impactAssessment.OverallRisk = ImpactNone)

(***************************************************************************)
(* Properties of the version comparator and the knowledge bases.           *)
(***************************************************************************)
Asked(fn) == query # NoCall /\ query.fn = fn /\ query.returned

\* the integer value of component i of a version: 0 when the component is
\* missing or is no number
componentValue(parts, i) ==
    IF i <= Len(parts) /\ parts[i] # << >> /\ \A j \in DOMAIN parts[i] : IsDigit(parts[i][j])
    THEN DecimalValue(parts[i], 0)
    ELSE 0

\* (major, minor) of a version: one leading v stripped, split on the dots
majorMinor(version) ==
    LET stripped == IF version # << >> /\ Head(version) = "v" THEN Tail(version) ELSE version
        parts == Split(stripped, ".")
    IN  << componentValue(parts, 1), componentValue(parts, 2) >>

\* (major, minor) of a is lexicographically at least that of b
atLeast(a, b) == a[1] > b[1] \/ (a[1] = b[1] /\ a[2] >= b[2])

\* C12: isVersionGreaterOrEqual(a, b) is the lexicographic test
\* (major_a, minor_a) >= (major_b, minor_b), major and minor being the values
\* of the first two components after one leading v is stripped, 0 for a
\* missing or non-numeric component: "2" reads (2, 0), "" reads (0, 0).
C12_ComparesMajorMinor ==
    Asked("isVersionGreaterOrEqual") =>
        answer = atLeast(majorMinor(query.version), majorMinor(query.minVersion))

\* the records loaded with exactly this group, version and kind, in file order
recordsOf(kb, group, version, kind) ==
    SelectSeq(kb.apiList, LAMBDA dep : /\ dep.Group = group
                                       /\ dep.Version = version
                                       /\ dep.Kind = kind)

\* the record of the API the query names: the last one loaded for it
askedRecord ==
    LET records == recordsOf(apiKB, query.group, query.version, query.kind)
    IN  records[Len(records)]

askedHasRecord == recordsOf(apiKB, query.group, query.version, query.kind) # << >>

\* C11: for an API that has a record, IsAPIRemoved is true when (major, minor)
\* of the target is at least (major, minor) of the record's removedIn, and
\* false when it is below.
C11_RemovedFromRemovedInOn ==
    (Asked("IsAPIRemoved") /\ askedHasRecord) =>
        answer = atLeast(majorMinor(query.targetVersion), majorMinor(askedRecord.RemovedIn))

\* C18: CheckDeprecation(group, version, kind) returns a record only if a
\* record of exactly that group, version and kind was loaded, and then a
\* record of that triple; the empty group and the group "core" are distinct
\* keys, and distinct triples never share a key.
C18_LookupIsExact ==
    /\ Asked("CheckDeprecation") =>
          (answer.found =>
              /\ askedHasRecord
              /\ answer.dep.Group = query.group
              /\ answer.dep.Version = query.version
              /\ answer.dep.Kind = query.kind)
    /\ Asked("CheckDeprecation") =>
          \A i \in DOMAIN apiKB.apiList :
              << apiKB.apiList[i].Group, apiKB.apiList[i].Version, apiKB.apiList[i].Kind >>
                    # << query.group, query.version, query.kind >>
                 => makeKey(apiKB.apiList[i].Group, apiKB.apiList[i].Version,
                            apiKB.apiList[i].Kind)
                       # makeKey(query.group, query.version, query.kind)

\* C19: IsAPIDeprecated(group, version, kind, target) is true iff the API has
\* a record, the target is at least the record's deprecatedIn, and
\* IsAPIRemoved is false for the same arguments; the two are never both true.
C19_DeprecatedIsNotYetRemoved ==
    Asked("IsAPIDeprecated") =>
        LET removed == IsAPIRemoved(apiKB, query.group, query.version, query.kind,
                                    query.targetVersion)
        IN  /\ answer = (/\ askedHasRecord
                         /\ isVersionGreaterOrEqual(query.targetVersion,
                                                    askedRecord.DeprecatedIn)
                         /\ ~removed)
            /\ ~(answer /\ removed)

(***************************************************************************)
(* Properties of the chart knowledge base.                                 *)
(***************************************************************************)
\* a version string without its one leading v
withoutV(version) ==
    IF version # << >> /\ Head(version) = "v" THEN Tail(version) ELSE version

\* the entry's compatible set contains the Kubernetes version
listsKubeVersion(compat, kubeVersion) ==
    \E i \in DOMAIN compat.CompatibleWith :
        withoutV(compat.CompatibleWith[i]) = withoutV(kubeVersion)

\* the entry is compatible with the Kubernetes version and free of known issues
eligible(compat, kubeVersion) ==
    listsKubeVersion(compat, kubeVersion) /\ compat.KnownIssues = << >>

askedChartInKB == query.chartName \in DOMAIN chartKB.charts

\* the entries of the chart asked about
askedVersions == chartKB.charts[query.chartName].Versions

\* the entries of the chart asked about that carry this chart version
entriesNamed(chartVersion) ==
    {i \in DOMAIN askedVersions : askedVersions[i].ChartVersion = chartVersion}

\* chart version a is strictly higher than b, segment by segment as numbers,
\* a missing segment being 0
strictlyHigher(a, b) ==
    LET pa == Split(withoutV(a), ".")
        pb == Split(withoutV(b), ".")
        n == IF Len(pa) > Len(pb) THEN Len(pa) ELSE Len(pb)
    IN  \E i \in 1..n :
            /\ componentValue(pa, i) > componentValue(pb, i)
            /\ \A j \in 1..(i - 1) : componentValue(pa, j) = componentValue(pb, j)

\* C13: FindCompatibleChartVersion never returns a RecommendedVersion naming
\* an entry that has known issues or whose compatible set lacks the target.
C13_RecommendsOnlyEligibleEntries ==
    (Asked("FindCompatibleChartVersion") /\ answer.RecommendedVersion # << >>) =>
        /\ askedChartInKB
        /\ entriesNamed(answer.RecommendedVersion) # {}
        /\ \A i \in entriesNamed(answer.RecommendedVersion) :
               eligible(askedVersions[i], query.kubeVersion)

\* a version is recommended although the chart also has an entry that must
\* not be: one with known issues, or one that does not list the target
C13_Witness ==
    /\ Asked("FindCompatibleChartVersion")
    /\ answer.RecommendedVersion # << >>
    /\ \E i \in DOMAIN askedVersions :
          /\ ~eligible(askedVersions[i], query.kubeVersion)
          /\ strictlyHigher(askedVersions[i].ChartVersion, answer.RecommendedVersion)

\* C14: a returned RecommendedVersion is maximal among the chart's entries
\* that are compatible with the target and issue-free: no such entry is
\* strictly higher, segment by segment as numbers, missing segments being 0.
C14_RecommendsHighestEligible ==
    (Asked("FindCompatibleChartVersion") /\ answer.RecommendedVersion # << >>) =>
        /\ askedChartInKB
        /\ ~answer.IsCompatible
        /\ \A i \in DOMAIN askedVersions :
               eligible(askedVersions[i], query.kubeVersion) =>
                   ~strictlyHigher(askedVersions[i].ChartVersion, answer.RecommendedVersion)

\* two eligible entries, and the recommended 10.x is the higher one as
\* numbers while 9.0.0 is the higher one as text
C14_Witness ==
    /\ Asked("FindCompatibleChartVersion")
    /\ answer.RecommendedVersion \in {CV_10_0_0, CV_10_1}
    /\ \E i \in DOMAIN askedVersions :
          /\ askedVersions[i].ChartVersion = CV_9_0_0
          /\ eligible(askedVersions[i], query.kubeVersion)

\* C15: for a chart of the knowledge base, IsCompatible is true, with no
\* RecommendedVersion, exactly when the current chart version has an entry
\* that lists the target and has no known issues.
C15_CompatibleIffCurrentEligible ==
    (Asked("FindCompatibleChartVersion") /\ askedChartInKB) =>
        /\ answer.IsCompatible <=>
               \E i \in entriesNamed(query.chartVersion) :
                   eligible(askedVersions[i], query.kubeVersion)
        /\ answer.IsCompatible => answer.RecommendedVersion = << >>

\* the current version is found compatible through an entry written v1.25
\* for the target 1.25, in a chart that has another entry too
C15_Witness ==
    /\ Asked("FindCompatibleChartVersion")
    /\ askedChartInKB
    /\ answer.IsCompatible
    /\ query.kubeVersion = KV_1_25
    /\ Len(askedVersions) > 1

\* C16: for a chart of the knowledge base with no entry that is both
\* compatible with the target and free of known issues, the answer is
\* IsCompatible false with an empty RecommendedVersion, also when
\* compatible entries with known issues exist.
C16_NoEligibleNoRecommendation ==
    (/\ Asked("FindCompatibleChartVersion")
     /\ askedChartInKB
     /\ \A i \in DOMAIN askedVersions : ~eligible(askedVersions[i], query.kubeVersion)) =>
        /\ ~answer.IsCompatible
        /\ answer.RecommendedVersion = << >>

\* nothing eligible, but an entry that lists the target and has known issues
C16_Witness ==
    /\ Asked("FindCompatibleChartVersion")
    /\ askedChartInKB
    /\ \A i \in DOMAIN askedVersions : ~eligible(askedVersions[i], query.kubeVersion)
    /\ \E i \in DOMAIN askedVersions :
          /\ listsKubeVersion(askedVersions[i], query.kubeVersion)
          /\ askedVersions[i].KnownIssues # << >>
    /\ ~answer.IsCompatible

\* C17: CheckCompatibility returns (true, no issues) when the chart or the
\* chart version has no entry; (false, the entry's known issues) when the
\* entry does not list the cluster version; and true for an existing entry
\* only when the entry lists the cluster version.
C17_CheckCompatibility ==
    Asked("CheckCompatibility") =>
        IF ~askedChartInKB \/ entriesNamed(query.chartVersion) = {}
        THEN answer = [compatible |-> TRUE, issues |-> << >>]
        ELSE \A i \in entriesNamed(query.chartVersion) :
                /\ ~listsKubeVersion(askedVersions[i], query.kubeVersion) =>
                       answer = [compatible |-> FALSE,
                                 issues |-> askedVersions[i].KnownIssues]
                /\ answer.compatible => listsKubeVersion(askedVersions[i], query.kubeVersion)

\* an entry with known issues that does not list the cluster version
C17_Witness ==
    /\ Asked("CheckCompatibility")
    /\ askedChartInKB
    /\ entriesNamed(query.chartVersion) # {}
    /\ ~answer.compatible
    /\ answer.issues # << >>

(***************************************************************************)
(* Properties of the outcome of ComputeUpgradeImpact.                      *)
(***************************************************************************)
ImpactCalled == impactCall # NoCall

\* the rows of the cluster the call named
calledRows(rows) == rowsOfCluster(rows, impactCall.clusterID)

removedAtCalledTarget(api) ==
    IsAPIRemoved(apiKB, api.Group, api.Version, api.Kind, impactCall.targetVersion)

incompatibleAtCalledTarget(release) ==
    ~FindCompatibleChartVersion(chartKB, release.Chart, release.ChartVersion,
                                impactCall.targetVersion).IsCompatible

\* the assessment names the call's cluster and target, every manifest API,
\* served CRD version and Helm release of the cluster was examined, and the
\* total and the risk are those of the three lists
completeAssessment ==
    LET a == impactAssessment
        total == Len(a.DeprecatedManifestAPIs) + Len(a.DeprecatedCRDAPIs)
                     + Len(a.IncompatibleCharts)
    IN  /\ a.ClusterID = impactCall.clusterID
        /\ a.TargetVersion = impactCall.targetVersion
        /\ a.CurrentVersion = clusters[impactCall.clusterID].KubeVersion
        /\ Len(a.DeprecatedManifestAPIs) =
               Len(SelectSeq(calledRows(manifestApis), removedAtCalledTarget))
        /\ Len(a.DeprecatedCRDAPIs) =
               Len(SelectSeq(servedTriples(calledRows(crds)), removedAtCalledTarget))
        /\ Len(a.IncompatibleCharts) =
               Len(SelectSeq(calledRows(helmReleases), incompatibleAtCalledTarget))
        /\ a.TotalIssues = total
        /\ a.OverallRisk = ImpactNone <=> total = 0

\* C20: ComputeUpgradeImpact returns either a complete assessment and no
\* error, or no assessment and an error, never a partial assessment; for an
\* unknown cluster id or a failed inventory query it returns the error.
C20_CompleteOrError ==
    ImpactCalled =>
        /\ \/ /\ impactErr = ""
              /\ impactAssessment # NilAssessment
              /\ completeAssessment
           \/ /\ impactErr # ""
              /\ impactAssessment = NilAssessment
        /\ (\/ impactCall.clusterID \notin DOMAIN clusters
            \/ impactCall.failedQuery # "none")
               => (impactErr # "" /\ impactAssessment = NilAssessment)

\* the Helm releases could not be read after a manifest API of the cluster
\* had been found removed: the call returned the error and no assessment
C20_Witness ==
    /\ ImpactCalled
    /\ impactCall.clusterID \in DOMAIN clusters
    /\ impactCall.failedQuery = "helm releases"
    /\ SelectSeq(calledRows(manifestApis), removedAtCalledTarget) # << >>
    /\ calledRows(helmReleases) # << >>
    /\ impactAssessment = NilAssessment
    /\ impactErr # ""

(***************************************************************************)
(* Properties of the topological sort and of the planner's graph.          *)
(***************************************************************************)
PlanCalled == planInput # NilAssessment

\* the ids of the first k returned steps
emitted(k) == {plan.Steps[j].ID : j \in 1..k}

\* the ids from which the graph has an edge to id
predecessors(id) ==
    {f \in DOMAIN edges : \E i \in DOMAIN edges[f] : edges[f][i] = id}

\* the steps not among the first k whose incoming edges all come from them
readyAfter(k) ==
    {id \in (DOMAIN graph) \ emitted(k) : predecessors(id) \subseteq emitted(k)}

\* C22: GeneratePlan never fails: the sort ends, every node of the graph is
\* among the returned steps, and no cycle error is returned, also for
\* duplicate chart names and API keys that sanitize to one step id.
C22_GeneratePlanNeverFails ==
    PlanCalled =>
        /\ planErr = ""
        /\ PlanReturned
        /\ emitted(Len(plan.Steps)) = DOMAIN graph
        /\ Len(plan.Steps) = Cardinality(DOMAIN graph)

\* a plan for two API keys of one step id and two releases of one chart
C22_Witness ==
    /\ PlanReturned
    /\ Cardinality(DOMAIN apiMapOf(planInput)) = 2
    /\ Cardinality({s \in DOMAIN graph : graph[s].Type = StepAPIMigration}) = 1
    /\ Len(planInput.IncompatibleCharts) = 2
    /\ Cardinality({s \in DOMAIN graph : graph[s].Type = StepChartUpgrade}) = 1

C25_EdgesAreDependencies ==
    PlanCalled =>
        \A s \in DOMAIN graph :
            predecessors(s) =
                {graph[s].Dependencies[i] : i \in DOMAIN graph[s].Dependencies}

(***************************************************************************)
(* Properties of the planner's other methods.                              *)
(***************************************************************************)
\* C21: the timeline of n steps uses h = (n * 30) integer-divided by 60:
\* less than one hour for h < 1, approximately 1 hour for h = 1,
\* approximately h hours otherwise; a plan GeneratePlan returns has n >= 4
\* steps and the timeline approximately floor(n/2) hours, floor(n/2) >= 2.
C21_TimelineFromStepCount ==
    /\ Asked("estimateTimeline") =>
          LET h == (query.stepCount * 30) \div 60
          IN  /\ h < 1 => answer = << "Less than 1 hour" >>
              /\ h = 1 => answer = << "Approximately 1 hour" >>
              /\ h > 1 => answer = << "Approximately", h, "hours" >>
    /\ PlanReturned =>
          /\ Len(plan.Steps) >= 4
          /\ Len(plan.Steps) \div 2 >= 2
          /\ plan.Timeline = << "Approximately", Len(plan.Steps) \div 2, "hours" >>

\* a returned plan with an odd number of steps, at least five
C21_Witness ==
    /\ PlanReturned
    /\ Len(plan.Steps) >= 5
    /\ Len(plan.Steps) % 2 = 1

\* the plan has a step that lists a dependency id no step of the plan has
danglingDependency(p) ==
    \E i \in DOMAIN p.Steps : \E k \in DOMAIN p.Steps[i].Dependencies :
        \A j \in DOMAIN p.Steps : p.Steps[j].ID # p.Steps[i].Dependencies[k]

\* C24: ValidatePlan returns an error iff the plan has no steps or a step
\* lists a dependency id that no step of the plan has; every plan
\* GeneratePlan returns passes ValidatePlan.
C24_ValidatePlan ==
    Asked("ValidatePlan") =>
        /\ answer # "" <=> (query.plan.Steps = << >> \/ danglingDependency(query.plan))
        /\ (PlanReturned /\ query.plan = plan) => answer = ""

\* the plan GeneratePlan returned for a migration step and a chart step was
\* validated
C24_Witness ==
    /\ Asked("ValidatePlan")
    /\ PlanReturned
    /\ query.plan = plan
    /\ \E i, j \in DOMAIN plan.Steps :
          /\ plan.Steps[i].Type = StepAPIMigration
          /\ plan.Steps[j].Type = StepChartUpgrade
    /\ answer = ""

(***************************************************************************)
(* Properties of the two chart lookups together.                           *)
(***************************************************************************)
\* CheckCompatibility answers compatible, with no known issues, for the
\* chart, chart version and Kubernetes version asked about
checkedCompatible ==
    CheckCompatibility(chartKB, query.chartName, query.chartVersion, query.kubeVersion)
        = [compatible |-> TRUE, issues |-> << >>]

\* C26: whenever CheckCompatibility returns compatible with no known issues,
\* FindCompatibleChartVersion returns IsCompatible true and the analyzer
\* emits no chart impact, also for a chart of the knowledge base that has
\* no entry of the release's chart version.
C26_LookupsAgreeOnAbsence ==
    /\ (Asked("FindCompatibleChartVersion") /\ checkedCompatible) => answer.IsCompatible
    /\ (Asked("checkHelmReleases") /\ checkedCompatible) => answer = << >>

\* the known issues of the current version's entry when it lists the target,
\* none in every other case
carriedIssues ==
    IF askedChartInKB
       /\ \E i \in entriesNamed(query.chartVersion) :
              listsKubeVersion(askedVersions[i], query.kubeVersion)
    THEN askedVersions[CHOOSE i \in entriesNamed(query.chartVersion) : TRUE].KnownIssues
    ELSE << >>

\* C27: the known issues of a recommendation, and the Issues of the chart
\* impact made from it, are the known issues of the current version's entry
\* when that entry lists the target, and empty in every other case, also
\* when the current entry does not list the target and has known issues.
C27_CarriedKnownIssues ==
    /\ Asked("FindCompatibleChartVersion") => answer.KnownIssues = carriedIssues
    /\ Asked("checkHelmReleases") =>
          \A i \in DOMAIN answer : answer[i].Issues = carriedIssues

\* a chart impact without issues for a release whose entry has known issues
\* and does not list the target
C27_Witness ==
    /\ Asked("checkHelmReleases")
    /\ askedChartInKB
    /\ \E i \in entriesNamed(query.chartVersion) :
          /\ askedVersions[i].KnownIssues # << >>
          /\ ~listsKubeVersion(askedVersions[i], query.kubeVersion)
    /\ Len(answer) = 1
    /\ answer[1].Issues = << >>

(***************************************************************************)
(* Properties of records without a usable removal version.                 *)
(***************************************************************************)
\* the version is empty or has fewer than two dot-separated components
fewComponents(version) == Len(Split(version, ".")) < 2

\* C28: for a record whose removedIn is empty or has fewer than two
\* dot-separated components, IsAPIRemoved is true and IsAPIDeprecated is
\* false for every target version.
C28_NoRemovalVersionMeansRemoved ==
    /\ (Asked("IsAPIRemoved") /\ askedHasRecord /\ fewComponents(askedRecord.RemovedIn))
          => answer = TRUE
    /\ (Asked("IsAPIDeprecated") /\ askedHasRecord /\ fewComponents(askedRecord.RemovedIn))
          => answer = FALSE

(***************************************************************************)
(* Properties of the risk levels.                                          *)
(***************************************************************************)
\* C29: the OverallRisk of a returned assessment is none, high or critical,
\* never medium or low: every manifest-origin impact is critical and every
\* other counted issue is a CRD-origin or a chart impact.
C29_RiskNeverMediumOrLow ==
    ImpactReturned =>
        /\ impactAssessment.OverallRisk \in {ImpactNone, ImpactHigh, ImpactCritical}
        /\ \A i \in DOMAIN impactAssessment.DeprecatedManifestAPIs :
               impactAssessment.DeprecatedManifestAPIs[i].ImpactLevel = ImpactCritical

\* an assessment whose only impacts are manifest-origin
C29_Witness ==
    /\ ImpactReturned
    /\ Len(impactAssessment.DeprecatedManifestAPIs) >= 1
    /\ impactAssessment.DeprecatedCRDAPIs = << >>
    /\ impactAssessment.IncompatibleCharts = << >>
    /\ impactAssessment.OverallRisk = ImpactCritical

(***************************************************************************)
(* Properties of the plan and the CRD-origin impacts.                      *)
(***************************************************************************)
\* the two assessments agree on everything GeneratePlan reads
sameBesidesCRDs(a, b) ==
    /\ a.CurrentVersion = b.CurrentVersion
    /\ a.TargetVersion = b.TargetVersion
    /\ a.DeprecatedManifestAPIs = b.DeprecatedManifestAPIs
    /\ a.IncompatibleCharts = b.IncompatibleCharts

\* C30: two assessments that agree on current version, target version,
\* manifest-API impacts and incompatible charts and differ in their CRD-origin
\* impacts yield the same steps, order and timeline; an assessment whose only
\* impacts are CRD-origin yields the four skeleton steps only.
C30_PlanIgnoresCRDImpacts ==
    [][(PlanReturned /\ plan' # NilPlan /\ sameBesidesCRDs(planInput, planInput')
          /\ planInput.DeprecatedCRDAPIs # planInput'.DeprecatedCRDAPIs)
         => /\ plan'.Steps = plan.Steps
            /\ plan'.OrderedUpgradeSteps = plan.OrderedUpgradeSteps
            /\ plan'.Timeline = plan.Timeline
            /\ (planInput'.DeprecatedManifestAPIs = << >>
                  /\ planInput'.IncompatibleCharts = << >>)
                 => /\ Len(plan'.Steps) = 4
                    /\ {plan'.Steps[i].ID : i \in 1..Len(plan'.Steps)}
                         = {ID_precheck, ID_backup, ID_cluster_upgrade, ID_validation}]_vars

====
